---------------------------- MODULE Spec2Model ----------------------------
(***************************************************************************)
(* TinyMMOServer: the tick engine (main.cpp), the object updater           *)
(* (NetworkObjectUpdater.cpp), the path controller and its worker pool     *)
(* (PathController.cpp, ThreadSafeQueue.h) and the event bus               *)
(* (EventSystem.h / EventSystem.cpp).                                      *)
(*                                                                         *)
(* Units.  Time is counted in units of 25 ms (one tick interval at 40 Hz), *)
(* so 0.3 s = 12, 0.5 s = 20, 0.05 s = 2, 5 s = 200, 3 s = 120.  Lengths   *)
(* are integers; one navmap tile is MAP_TILE_SIZE units wide.  A position  *)
(* is <<x, y>> (z is carried through unchanged by every operation of the   *)
(* code and is left out).  +y is NORTH; navmap rows grow to the SOUTH.     *)
(*                                                                         *)
(* A failed assert, an uncaught std::out_of_range of a map .at() and every *)
(* other abnormal termination set running to FALSE: the server process is  *)
(* gone and nothing happens afterwards.                                    *)
(***************************************************************************)
EXTENDS Integers, Sequences, FiniteSets, TLC

VARIABLES
    running,                \* the server process is alive
    objectDataMap,          \* main: objectId -> ObjectData
    peerToPlayerId,         \* main: peer -> objectId (0: peer not connected)
    pendingObjectsToSpawn,  \* main: objectId -> [data, timeToSpawn]
    tempObjectTTL,          \* main: objectId -> remaining lifetime
    nextId,                 \* main: next object id
    sinceLastTick,          \* now - lastTick
    tickCount,              \* ticks run so far
    eventCount,             \* transport events serviced so far
    quadtrees,              \* MapDataRepository: map name -> set of object ids
    mPaths,                 \* PathController: objectId -> sequence of waypoints
    mNPCToTargetEntries,    \* NetworkObjectUpdater: npc id -> [mTargetObjectId, mPathRecalculationTimer]
    mPathFindingTasks,      \* PathController: task queue
    mPathFindingResults,    \* PathController: result queue
    lastTick,               \* what the last tick did (events published, messages broadcast, in their order)
    history,                \* per object id: server-time bookkeeping of requests and broadcasts
    responseMessage,        \* the BeginAttackResponseMessage the last handler sent, if it sent one
    sinceNPCAttack,         \* npc id -> the server time since its last NPCAttackEvent, up to just over 0.5 s
    listeners,              \* EventSystem: the IListener instances alive
    listenerAddress,        \* mInstanceId -> the address the IListener was constructed at
    sInstanceIdCounter,     \* EventSystem.cpp: the next IListener::mInstanceId
    mEventCallbacks,        \* EventSystem: event type -> listeners with a callback, in set order
    mEventIdToDeadListenerIds, \* EventSystem: event type -> listeners recorded as dead
    dispatching,            \* EventSystem::DispatchEvent in progress: [event, callbackIter]
    invoked,                \* the last callback invocation: [listener, alive]
    registrationOrder,      \* event type -> the listeners in the order of their RegisterForEvent calls
    q,                      \* ThreadSafeQueue::q of the task and the result queue: the elements in order
    mutex,                  \* ThreadSafeQueue::m of the task and the result queue: the thread holding it
    requested,              \* the PathController::FindPath calls made so far
    pc,                     \* thread -> its place in PathController::Update / FindPath / StartWorker
    sizeRead,               \* the last mPathFindingResults.size() read by PathController::Update
    waited,                 \* the threads that entered c.wait of dequeue
    notified,               \* the threads in c.wait that a notify_one has unblocked
    held,                   \* thread -> the element it is about to enqueue or has dequeued
    served,                 \* request -> its object id, the workers that dequeued it, the results enqueued for it
    applied,                \* the results PathController::Update dequeued, in order
    mNavmapPixels,          \* MapDataRepository: the SOLID tiles of the navmap loaded for WORKER_MAP
    findPathTask,           \* the task last handed to PathFindingWorker::FindPath
    findPathResult,         \* the result FindPath returned for it
    checkedObject,          \* the object and the MapMetaData last handed to CheckForMapChange
    checkResult,            \* what that call made of the object and what it returned
    mapDataRepo,            \* MapDataRepository: the names in its containers and how LoadMapData ended
    destroyedCall           \* the last OnObjectDestroyedEvent call: its event, mPaths and the entries before and after

-----------------------------------------------------------------------------
(* Bounds of the model *)

MaxPeers == 1
MaxId == 4
MaxTicks == 3
MaxEvents == 3
MaxAttackEvents == 4
MaxListeners == 3
MaxAddresses == 2
MaxHandledId == 3
MaxRequests == 3
NavmapSize == 3
LargeNavmapSize == 7
HitchDt == 12
StallDt == 121

(* Program constants *)

TICK_INTERVAL == 1
FAST_MELEE_CHARGE_TIME_SECS == 12
FAST_MELEE_SLASH_TIME_SECS == 12
NPC_LOITERING_TIMER_SECS == 200
NPC_ATTACK_ANIMATION_TIMER_SECS == 20
NPC_PATH_RECALCULATION_SECS == 2
SEED_NPC_ACTION_TIMER == 120
PLAYER_BASE_SPEED == 20
MAP_GAME_SCALE == 4
MAP_TILE_SIZE == 20
PATH_FINDING_WORKER_COUNT == 2
FIRST_FREE_ID == 2

AGGRO_RANGE == MAP_TILE_SIZE * 4

-----------------------------------------------------------------------------
(* Enumerations of net_common/NetworkCommon.h *)

ObjectTypes == {"PLAYER", "NPC", "ATTACK", "STATIC"}
AttackTypes == {"NONE", "MELEE", "PROJECTILE"}
ObjectStates == {"IDLE", "RUNNING", "MELEE_ATTACK"}
Factions == {"GOOD", "EVIL", "NEUTRAL"}
\* FacingDirection, in the order of the enum (RandomInt(0, 7) is cast to it)
FacingDirections == <<"SOUTH", "NORTH", "WEST", "EAST", "NORTH_WEST", "NORTH_EAST", "SOUTH_WEST", "SOUTH_EAST">>

Peers == 1..MaxPeers
Workers == 1..PATH_FINDING_WORKER_COUNT

-----------------------------------------------------------------------------
(* The map data: two maps side by side, forest_1 with forest_2 to its EAST. *)
(* Every other connection is the literal "None".                            *)

STARTING_ZONE == "forest_1"
MapNames == {"forest_1", "forest_2"}

\* MapMetaData: mMapDimensions and mMapPosition in manifest units (multiplied
\* by MAP_GAME_SCALE in every use), mMapConnections indexed NORTH, EAST, SOUTH, WEST
MapWidth == (NavmapSize * MAP_TILE_SIZE) \div MAP_GAME_SCALE

\* a third, larger map that only the path finding worker is run on
LARGE_MAP == "forest_3"

\* Navmap::GetSize: the side of the navmap image of a map
NavmapSizeOf(map) == IF map = LARGE_MAP THEN LargeNavmapSize ELSE NavmapSize

MapMetaData(map) ==
    IF map = LARGE_MAP
    THEN [mMapDimensions |-> <<(LargeNavmapSize * MAP_TILE_SIZE) \div MAP_GAME_SCALE,
                               (LargeNavmapSize * MAP_TILE_SIZE) \div MAP_GAME_SCALE>>,
          mMapPosition   |-> <<0, 0 - 2 * LargeNavmapSize * MAP_TILE_SIZE>>,
          mMapConnections |-> [NORTH |-> "None", EAST |-> "None", SOUTH |-> "None", WEST |-> "None"]]
    ELSE IF map = "forest_1"
    THEN [mMapDimensions |-> <<MapWidth, MapWidth>>,
          mMapPosition   |-> <<0, 0>>,
          mMapConnections |-> [NORTH |-> "None", EAST |-> "forest_2", SOUTH |-> "None", WEST |-> "None"]]
    ELSE [mMapDimensions |-> <<MapWidth, MapWidth>>,
          mMapPosition   |-> <<MapWidth, 0>>,
          mMapConnections |-> [NORTH |-> "None", EAST |-> "None", SOUTH |-> "None", WEST |-> "forest_1"]]

\* world edges of a map: centre * scale -/+ (dimension * scale) / 2
MapMinX(meta) == meta.mMapPosition[1] * MAP_GAME_SCALE - (meta.mMapDimensions[1] * MAP_GAME_SCALE) \div 2
MapMaxX(meta) == meta.mMapPosition[1] * MAP_GAME_SCALE + (meta.mMapDimensions[1] * MAP_GAME_SCALE) \div 2
MapMinY(meta) == meta.mMapPosition[2] * MAP_GAME_SCALE - (meta.mMapDimensions[2] * MAP_GAME_SCALE) \div 2
MapMaxY(meta) == meta.mMapPosition[2] * MAP_GAME_SCALE + (meta.mMapDimensions[2] * MAP_GAME_SCALE) \div 2

\* Navmap::GetNavmapCoord: world position -> <<col, row>>, floored
GetNavmapCoord(pos, map) ==
    LET meta == MapMetaData(map)
    IN  << (pos[1] - MapMinX(meta)) \div MAP_TILE_SIZE,
           (MapMaxY(meta) - pos[2]) \div MAP_TILE_SIZE >>

\* Navmap::GetMapPositionFromNavmapCoord: the world centre of a tile
GetMapPositionFromNavmapCoord(coord, map) ==
    LET meta == MapMetaData(map)
    IN  << MapMinX(meta) + coord[1] * MAP_TILE_SIZE + MAP_TILE_SIZE \div 2,
           MapMaxY(meta) - coord[2] * MAP_TILE_SIZE - MAP_TILE_SIZE \div 2 >>

InBounds(coord, map) ==
    /\ coord[1] >= 0 /\ coord[1] < NavmapSizeOf(map)
    /\ coord[2] >= 0 /\ coord[2] < NavmapSizeOf(map)

\* The navmap images: one SOLID tile in the south row of forest_1; the images
\* of WORKER_MAP and LARGE_MAP are the ones LoadNavmapData read (no SOLID
\* tile until then)
WORKER_MAP == "forest_2"

SolidTile(coord, map) ==
    \/ map = "forest_1" /\ coord = <<1, NavmapSize - 1>>
    \/ map \in {WORKER_MAP, LARGE_MAP} /\ coord \in mNavmapPixels

\* Navmap::GetNavmapTileAt: out-of-bounds coordinates are SOLID
GetNavmapTileAt(coord, map) ==
    IF ~InBounds(coord, map) \/ SolidTile(coord, map) THEN "SOLID" ELSE "WALKABLE"

TileAtPosition(pos, map) == GetNavmapTileAt(GetNavmapCoord(pos, map), map)

-----------------------------------------------------------------------------
(* Small helpers on functions and sequences *)

Remove(f, k) == [x \in DOMAIN f \ {k} |-> f[x]]
Put(f, k, v) == [x \in DOMAIN f \cup {k} |-> IF x = k THEN v ELSE f[x]]
EmptyMap == [x \in {} |-> 0]

RECURSIVE SetToSeq(_)
\* the ids of a set in ascending order
SetToSeq(S) ==
    IF S = {} THEN <<>>
    ELSE LET m == CHOOSE x \in S : \A y \in S : x <= y
         IN  <<m>> \o SetToSeq(S \ {m})

Abs(n) == IF n < 0 THEN 0 - n ELSE n
Sign(n) == IF n < 0 THEN 0 - 1 ELSE IF n > 0 THEN 1 ELSE 0

RECURSIVE ISqrtBetween(_, _, _)
\* the r in lo..hi with r * r <= n < (r + 1) * (r + 1), by bisection
ISqrtBetween(n, lo, hi) ==
    IF lo = hi THEN lo
    ELSE LET mid == (lo + hi + 1) \div 2
         IN  IF mid * mid <= n THEN ISqrtBetween(n, mid, hi) ELSE ISqrtBetween(n, lo, mid - 1)
\* floor of the square root
ISqrt(n) == ISqrtBetween(n, 0, n)

VecSub(a, b) == <<a[1] - b[1], a[2] - b[2]>>
VecAdd(a, b) == <<a[1] + b[1], a[2] + b[2]>>
VecScale(a, k) == <<a[1] * k, a[2] * k>>
LengthSq(v) == v[1] * v[1] + v[2] * v[2]
\* glm::normalize(v) * len, rounded towards zero on the integer grid
\* (the null vector, which glm turns into NaNs, stays the null vector)
NormalizeTimes(v, len) ==
    IF v = <<0, 0>> THEN <<0, 0>>
    ELSE IF v[2] = 0 THEN <<Sign(v[1]) * len, 0>>
    ELSE IF v[1] = 0 THEN <<0, Sign(v[2]) * len>>
    ELSE LET l == ISqrt(LengthSq(v))
         IN  <<Sign(v[1]) * ((Abs(v[1]) * len) \div l), Sign(v[2]) * ((Abs(v[2]) * len) \div l)>>

-----------------------------------------------------------------------------
(* ObjectData (net_common/NetworkCommon.h) *)

\* SetCurrentMap / GetCurrentMapString: the map name is stored in the record
SetCurrentMap(objectData, map) == [objectData EXCEPT !.currentMap = map]

\* main.cpp SetColliderData: the collider follows from objectType / attackType.
\* Full extents <<width, height>> (colliderRelativeDimentions * objectScale).
ColliderDimensions(objectData) ==
    CASE objectData.objectType = "PLAYER" -> <<10, 16>>
      [] objectData.objectType = "NPC" -> <<16, 16>>
      [] objectData.objectType = "ATTACK" /\ objectData.attackType = "PROJECTILE" -> <<20, 20>>
      [] objectData.objectType = "ATTACK" /\ objectData.attackType = "MELEE" -> <<20, 20>>
      [] OTHER -> <<0, 0>>

\* network::CollidersIntersect: overlap of the two colliders' bounding boxes
CollidersIntersect(a, b) ==
    LET da == ColliderDimensions(a)
        db == ColliderDimensions(b)
    IN  /\ 2 * Abs(a.position[1] - b.position[1]) < da[1] + db[1]
        /\ 2 * Abs(a.position[2] - b.position[2]) < da[2] + db[2]

\* network::VecToFacingDirection: the octant of a direction vector
VecToFacingDirection(v) ==
    CASE v[1] = 0 /\ v[2] < 0 -> "SOUTH"
      [] v[1] = 0 /\ v[2] > 0 -> "NORTH"
      [] v[1] < 0 /\ v[2] = 0 -> "WEST"
      [] v[1] > 0 /\ v[2] = 0 -> "EAST"
      [] v[1] < 0 /\ v[2] > 0 -> "NORTH_WEST"
      [] v[1] > 0 /\ v[2] > 0 -> "NORTH_EAST"
      [] v[1] < 0 /\ v[2] < 0 -> "SOUTH_WEST"
      [] v[1] > 0 /\ v[2] < 0 -> "SOUTH_EAST"
      [] OTHER -> "SOUTH"

\* main.cpp ENET_EVENT_TYPE_CONNECT: the PLAYER object of a new peer
NewPlayer(id, spawn) ==
    [objectId |-> id, parentObjectId |-> id,
     objectType |-> "PLAYER", attackType |-> "NONE",
     position |-> spawn, velocity |-> <<0, 0>>,
     objectState |-> "RUNNING", facingDirection |-> "SOUTH",
     objectFaction |-> "GOOD", speed |-> PLAYER_BASE_SPEED,
     actionTimer |-> 0, currentMap |-> STARTING_ZONE]

\* the initial NPC roster: one EVIL NPC in the middle of the starting zone
SeedNPC ==
    [objectId |-> 1, parentObjectId |-> 1,
     objectType |-> "NPC", attackType |-> "NONE",
     position |-> GetMapPositionFromNavmapCoord(<<NavmapSize \div 2, NavmapSize \div 2>>, STARTING_ZONE),
     velocity |-> <<0, 0>>,
     objectState |-> "IDLE", facingDirection |-> "SOUTH",
     objectFaction |-> "EVIL", speed |-> PLAYER_BASE_SPEED \div 2,
     actionTimer |-> SEED_NPC_ACTION_TIMER, currentMap |-> STARTING_ZONE]

\* main.cpp BeginAttackRequestMessage: the offset of a melee attack from its
\* attacker, by the attacker's facing direction (multiples of MAP_TILE_SIZE)
MeleeOffset(facing) ==
    CASE facing = "SOUTH" -> <<0, 0 - (MAP_TILE_SIZE * 8) \div 10>>
      [] facing = "NORTH" -> <<0, (MAP_TILE_SIZE * 8) \div 10>>
      [] facing = "WEST" -> <<0 - (MAP_TILE_SIZE * 5) \div 10, 0>>
      [] facing = "EAST" -> <<(MAP_TILE_SIZE * 5) \div 10, 0>>
      [] facing = "NORTH_WEST" -> <<0 - (MAP_TILE_SIZE * 3) \div 10, (MAP_TILE_SIZE * 6) \div 10>>
      [] facing = "NORTH_EAST" -> <<(MAP_TILE_SIZE * 3) \div 10, (MAP_TILE_SIZE * 6) \div 10>>
      [] facing = "SOUTH_WEST" -> <<0 - (MAP_TILE_SIZE * 3) \div 10, 0 - (MAP_TILE_SIZE * 6) \div 10>>
      [] facing = "SOUTH_EAST" -> <<(MAP_TILE_SIZE * 3) \div 10, 0 - (MAP_TILE_SIZE * 6) \div 10>>

\* main.cpp BeginAttackRequestMessage (MELEE): the ATTACK object to spawn
NewMeleeAttack(id, attackerData) ==
    [objectId |-> id, parentObjectId |-> attackerData.objectId,
     objectType |-> "ATTACK", attackType |-> "MELEE",
     position |-> VecAdd(attackerData.position, MeleeOffset(attackerData.facingDirection)),
     velocity |-> <<0, 0>>,
     objectState |-> "IDLE", facingDirection |-> attackerData.facingDirection,
     objectFaction |-> attackerData.objectFaction, speed |-> 0,
     actionTimer |-> 0, currentMap |-> attackerData.currentMap]


-----------------------------------------------------------------------------
(* PathController (simulation-thread side) *)

\* PathController::DoesObjectHavePath
DoesObjectHavePath(paths, objectId) == objectId \in DOMAIN paths

\* PathController::ClearObjectPath
ClearObjectPath(paths, objectId) == Remove(paths, objectId)

\* PathController::SetObjectTargetPosition
SetObjectTargetPosition(paths, objectId, target) ==
    Put(ClearObjectPath(paths, objectId), objectId, <<target>>)

\* PathController::FindPath: the task put on the task queue (the navmap and
\* the map position of the task are those of the source's current map)
PathFindingTask(sourceObjectData, targetObjectData) ==
    [mObjectId |-> sourceObjectData.objectId,
     mStartPosition |-> sourceObjectData.position,
     mTargetPosition |-> targetObjectData.position,
     mMap |-> sourceObjectData.currentMap]

\* a variant of the loop body below in which a result with an empty path
\* clears the path of its object id
ApplyPathFindingResultClearing(paths, result) ==
    IF Len(result.mPath) > 0 THEN Put(paths, result.mObjectId, result.mPath)
    ELSE Remove(paths, result.mObjectId)

\* PathController::Update, the body of the loop: a result with a non-empty
\* path replaces the path of its object id
ApplyPathFindingResult(paths, result) ==
    IF Len(result.mPath) > 0 THEN Put(paths, result.mObjectId, result.mPath) ELSE paths

RECURSIVE DrainResults(_, _)
\* PathController::Update: every queued result is dequeued and applied
DrainResults(paths, results) ==
    IF results = <<>> THEN paths
    ELSE DrainResults(ApplyPathFindingResult(paths, Head(results)), Tail(results))

\* PathController::IsTargetInLOS: every sample point between source and
\* target, (speed * dt) / 2 apart, lies on a WALKABLE tile
\* (every NPC of the model has speed > 0)
IsTargetInLOS(sourceObjectData, targetObjectData, map, dt) ==
    LET dir == VecSub(targetObjectData.position, sourceObjectData.position)
        tIncrements == (sourceObjectData.speed * dt) \div 2
        numTIncrements == IF tIncrements = 0 THEN 0 ELSE ISqrt(LengthSq(dir)) \div tIncrements
    IN  \A i \in 0..(numTIncrements - 1) :
            TileAtPosition(VecAdd(sourceObjectData.position, NormalizeTimes(dir, i * tIncrements)), map) = "WALKABLE"

-----------------------------------------------------------------------------
(* NetworkObjectUpdater.  The operators below thread a record u through    *)
(* one tick:                                                               *)
(*   objs     objectDataMap (what mTickObjectData points to)               *)
(*   paths    PathController::mPaths                                       *)
(*   entries  mNPCToTargetEntries                                          *)
(*   tasks    the path-finding task queue                                  *)
(*   ttl      tempObjectTTL                                                *)
(*   idsPerMap mObjectIdsPerMap                                            *)
(*   events   the events dispatched during the tick                        *)
(*   checks   the calls of CheckForMapChange made during the tick          *)
(*   crashed  an assert failed or an exception escaped                     *)
(* ----------------------------------------------------------------------- *)

\* a variant that looks at the north and the south edge first
NextMapNameNorthFirst(objectData, meta) ==
    IF objectData.position[2] > MapMaxY(meta) THEN meta.mMapConnections.NORTH
    ELSE IF objectData.position[2] < MapMinY(meta) THEN meta.mMapConnections.SOUTH
    ELSE IF objectData.position[1] > MapMaxX(meta) THEN meta.mMapConnections.EAST
    ELSE IF objectData.position[1] < MapMinX(meta) THEN meta.mMapConnections.WEST
    ELSE ""

\* NetworkObjectUpdater::CheckForMapChange: [data, changed]
NextMapName(objectData, meta) ==
    IF objectData.position[1] > MapMaxX(meta) THEN meta.mMapConnections.EAST
    ELSE IF objectData.position[1] < MapMinX(meta) THEN meta.mMapConnections.WEST
    ELSE IF objectData.position[2] > MapMaxY(meta) THEN meta.mMapConnections.NORTH
    ELSE IF objectData.position[2] < MapMinY(meta) THEN meta.mMapConnections.SOUTH
    ELSE ""

\* the value CheckForMapChange returns for the neighbour it selected
MapChangeResult(nextMapName) == nextMapName # ""

CheckForMapChange(objectData, meta) ==
    LET nextMapName == NextMapName(objectData, meta)
    IN  [data |-> IF nextMapName # "" /\ nextMapName # "None"
                  THEN SetCurrentMap(objectData, nextMapName)
                  ELSE objectData,
         changed |-> MapChangeResult(nextMapName)]

\* the record kept of one CheckForMapChange call
MapCheck(before, res, hadPath) ==
    [objectId |-> before.objectId, objectType |-> before.objectType,
     attackType |-> before.attackType, position |-> before.position,
     map |-> before.currentMap, nextMapName |-> NextMapName(before, MapMetaData(before.currentMap)),
     mapAfter |-> res.data.currentMap, changed |-> res.changed, hadPath |-> hadPath]

Dispatch(u, event) == [u EXCEPT !.events = @ \cup {event}]

\* main.cpp, the NetworkObjectCollisionEvent subscription: a collision with
\* world geometry (rhs = 0) schedules the object's immediate removal
OnNetworkObjectCollision(u, lhs, rhs) ==
    IF rhs = 0 THEN [u EXCEPT !.ttl = Put(@, lhs, 0)] ELSE u

\* a variant of the handler below that drops the entry of the object only
OnObjectDestroyedEventKeyOnly(u, objectId) ==
    [u EXCEPT !.paths = ClearObjectPath(@, objectId),
              !.entries = Remove(@, objectId)]

\* NetworkObjectUpdater::OnObjectDestroyedEvent
OnObjectDestroyedEvent(u, objectId) ==
    LET without == Remove(u.entries, objectId)
        kept == {n \in DOMAIN without : without[n].mTargetObjectId # objectId}
    IN  [u EXCEPT !.paths = ClearObjectPath(@, objectId),
                  !.entries = [n \in kept |-> without[n]]]

\* UpdateAttack, after the integration of the position: the collision with
\* world geometry and the map check
AttackMoved(u, moved) ==
    LET collides == /\ moved.attackType = "PROJECTILE"
                    /\ TileAtPosition(moved.position, moved.currentMap) = "SOLID"
        res == CheckForMapChange(moved, MapMetaData(moved.currentMap))
    IN  [(IF collides
          THEN OnNetworkObjectCollision(
                   Dispatch(u, [type |-> "NetworkObjectCollision", lhs |-> moved.objectId, rhs |-> 0]),
                   moved.objectId, 0)
          ELSE u)
         EXCEPT !.objs[moved.objectId] = res.data,
                !.checks = @ \cup {MapCheck(moved, res, FALSE)}]

\* NetworkObjectUpdater::UpdateAttack
UpdateAttack(u, objectId, dt) ==
    IF u.objs[objectId].currentMap \notin MapNames
    THEN [u EXCEPT !.crashed = TRUE]        \* GetMapMetaData().at throws
    ELSE AttackMoved(u, [u.objs[objectId] EXCEPT
                            !.position = VecAdd(@, VecScale(u.objs[objectId].velocity, dt))])

\* PathController::FindPath: enqueue a task from source to target
FindPath(u, sourceObjectData, targetObjectData) ==
    [u EXCEPT !.tasks = Append(@, PathFindingTask(sourceObjectData, targetObjectData))]

\* a variant of the checks below that lets a NEUTRAL object pick a target
IsValidTargetOfAnyone(objs, objectData, id, dt) ==
    /\ id # objectData.objectId
    /\ objs[id].objectType \in {"PLAYER", "NPC"}
    /\ objectData.objectFaction # objs[id].objectFaction
    /\ LengthSq(VecSub(objs[id].position, objectData.position)) <= AGGRO_RANGE * AGGRO_RANGE
    /\ IsTargetInLOS(objectData, objs[id], objectData.currentMap, dt)

\* NetworkObjectUpdater::FindValidTarget, the checks one candidate has to pass
IsValidTarget(objs, objectData, id, dt) ==
    /\ id # objectData.objectId
    /\ objectData.objectFaction # "NEUTRAL"
    /\ objs[id].objectType \in {"PLAYER", "NPC"}
    /\ objectData.objectFaction # objs[id].objectFaction
    /\ LengthSq(VecSub(objs[id].position, objectData.position)) <= AGGRO_RANGE * AGGRO_RANGE
    /\ IsTargetInLOS(objectData, objs[id], objectData.currentMap, dt)

\* the first element of ids that is in valid, 0 when there is none
FirstOf(ids, valid) ==
    IF \A i \in 1..Len(ids) : ids[i] \notin valid THEN 0
    ELSE ids[CHOOSE i \in 1..Len(ids) : ids[i] \in valid /\ \A j \in 1..(i - 1) : ids[j] \notin valid]

\* a variant of the search below that finds nobody
FindNoTarget(u, objectData, dt) == 0

\* NetworkObjectUpdater::FindValidTarget: the first valid candidate of the
\* object's map, 0 when there is none
FindValidTarget(u, objectData, dt) ==
    FirstOf(u.idsPerMap[objectData.currentMap],
            {id \in DOMAIN u.objs : IsValidTarget(u.objs, objectData, id, dt)})

\* UpdateNPC, the loitering switch: the tile next to mapCoord in a direction
LoiterCoord(mapCoord, nextDirection) ==
    CASE nextDirection = "SOUTH" -> <<mapCoord[1], mapCoord[2] + 1>>
      [] nextDirection = "NORTH" -> <<mapCoord[1], mapCoord[2] - 1>>
      [] nextDirection = "WEST" -> <<mapCoord[1] - 1, mapCoord[2]>>
      [] nextDirection = "EAST" -> <<mapCoord[1] + 1, mapCoord[2]>>
      [] nextDirection = "NORTH_WEST" -> <<mapCoord[1] - 1, mapCoord[2] - 1>>
      [] nextDirection = "NORTH_EAST" -> <<mapCoord[1] + 1, mapCoord[2] - 1>>
      [] nextDirection = "SOUTH_WEST" -> <<mapCoord[1] - 1, mapCoord[2] + 1>>
      [] nextDirection = "SOUTH_EAST" -> <<mapCoord[1] + 1, mapCoord[2] + 1>>

\* UpdateNPCPath: distance > step
IsFar(objectData, waypoint, dt) ==
    LengthSq(VecSub(waypoint, objectData.position)) > (objectData.speed * dt) * (objectData.speed * dt)

\* UpdateNPCPath, the movement: towards the front waypoint by one step, or
\* onto it; last tells that the waypoint is the last of the path
MoveAlongPath(objectData, waypoint, last, dt) ==
    IF IsFar(objectData, waypoint, dt)
    THEN [objectData EXCEPT
            !.velocity = NormalizeTimes(VecSub(waypoint, objectData.position), objectData.speed * dt),
            !.position = VecAdd(@, NormalizeTimes(VecSub(waypoint, objectData.position), objectData.speed * dt)),
            !.facingDirection = VecToFacingDirection(VecSub(waypoint, objectData.position))]
    ELSE [objectData EXCEPT
            !.velocity = <<0, 0>>,
            !.position = waypoint,
            !.objectState = IF last THEN "IDLE" ELSE @,
            !.facingDirection = VecToFacingDirection(VecSub(waypoint, objectData.position))]

\* UpdateNPCPath, the path after the movement: path.pop() and
\* ClearObjectPath when the path is empty
PathAfterMove(paths, objectData, dt) ==
    IF IsFar(objectData, Head(paths[objectData.objectId]), dt) THEN paths
    ELSE IF Len(paths[objectData.objectId]) = 1 THEN ClearObjectPath(paths, objectData.objectId)
    ELSE [paths EXCEPT ![objectData.objectId] = Tail(@)]

MoveNPC(u, objectId, dt) ==
    [u EXCEPT !.objs[objectId] = MoveAlongPath(@, Head(u.paths[objectId]), Len(u.paths[objectId]) = 1, dt),
              !.paths = PathAfterMove(@, u.objs[objectId], dt)]

\* a variant of the test below that never lets an NPC attack
CanAttackNever(u, objectId, targetId) == FALSE

\* UpdateNPCPath, "Can attack"
CanAttack(u, objectId, targetId) ==
    /\ u.objs[objectId].actionTimer < 0
    /\ targetId \in DOMAIN u.objs
    /\ CollidersIntersect(u.objs[targetId], u.objs[objectId])

\* UpdateNPCPath, the path recalculation of a pursuing NPC; recalc is the
\* recalculation timer after the decrement
RecalculatePath(u, objectId, targetId, recalc) ==
    IF ~(recalc < 0) THEN [u EXCEPT !.entries[objectId].mPathRecalculationTimer = recalc]
    ELSE IF targetId \notin DOMAIN u.objs
    THEN [u EXCEPT !.crashed = TRUE]        \* mTickObjectData->at throws
    ELSE FindPath([u EXCEPT !.entries[objectId].mPathRecalculationTimer = recalc + NPC_PATH_RECALCULATION_SECS],
                  u.objs[objectId], u.objs[targetId])

\* UpdateNPCPath, "If it is pursuing, recalculate path"; hadEntry tells that
\* npcToTargetIter was not the end iterator
PursueTarget(u, objectId, hadEntry, dt) ==
    IF ~hadEntry THEN u
    ELSE IF CanAttack(u, objectId, u.entries[objectId].mTargetObjectId)
    THEN Dispatch([u EXCEPT !.objs[objectId].actionTimer = NPC_ATTACK_ANIMATION_TIMER_SECS,
                            !.objs[objectId].objectState = "MELEE_ATTACK",
                            !.paths = ClearObjectPath(@, objectId)],
                  [type |-> "NPCAttack", lhs |-> objectId, rhs |-> 0])
    ELSE RecalculatePath(u, objectId, u.entries[objectId].mTargetObjectId,
                         u.entries[objectId].mPathRecalculationTimer - dt)

\* UpdateNPCPath, "Kill path on map change", for the result res of the check
ApplyMapCheck(u, objectId, res) ==
    [u EXCEPT !.objs[objectId] = res.data,
              !.paths = IF res.changed THEN ClearObjectPath(@, objectId) ELSE @,
              !.checks = @ \cup {MapCheck(u.objs[objectId], res, DoesObjectHavePath(u.paths, objectId))}]

KillPathOnMapChange(u, objectId) ==
    IF u.crashed THEN u
    ELSE ApplyMapCheck(u, objectId,
             CheckForMapChange(u.objs[objectId], MapMetaData(u.objs[objectId].currentMap)))

\* NetworkObjectUpdater::UpdateNPCPath
UpdateNPCPath(u, objectId, dt) ==
    KillPathOnMapChange(
        PursueTarget(MoveNPC(u, objectId, dt), objectId, objectId \in DOMAIN u.entries, dt),
        objectId)

\* UpdateNPC, case IDLE without a path, a target found
AcquireTarget(u, objectData, otherObjectData) ==
    FindPath(
        Dispatch([u EXCEPT !.objs[objectData.objectId].facingDirection =
                               VecToFacingDirection(VecSub(otherObjectData.position, objectData.position)),
                           !.entries = Put(@, objectData.objectId,
                               [mTargetObjectId |-> otherObjectData.objectId,
                                mPathRecalculationTimer |-> NPC_PATH_RECALCULATION_SECS])],
                 [type |-> "NPCAggro", lhs |-> objectData.objectId, rhs |-> otherObjectData.objectId]),
        [objectData EXCEPT !.facingDirection =
            VecToFacingDirection(VecSub(otherObjectData.position, objectData.position))],
        otherObjectData)

\* a variant of the loitering step below that walks onto any tile
LoiterAnywhere(u, objectData, nextDirection, mapCoord) ==
    [u EXCEPT !.objs[objectData.objectId].actionTimer = NPC_LOITERING_TIMER_SECS,
              !.objs[objectData.objectId].facingDirection = nextDirection,
              !.paths = SetObjectTargetPosition(@, objectData.objectId,
                            GetMapPositionFromNavmapCoord(mapCoord, objectData.currentMap))]

\* UpdateNPC, case IDLE without a path, no target: the loitering timer ran
\* out and mapCoord is the tile next to the NPC in the direction drawn
Loiter(u, objectData, nextDirection, mapCoord) ==
    IF GetNavmapTileAt(mapCoord, objectData.currentMap) = "WALKABLE"
    THEN [u EXCEPT !.objs[objectData.objectId].actionTimer = NPC_LOITERING_TIMER_SECS,
                   !.objs[objectData.objectId].facingDirection = nextDirection,
                   !.paths = SetObjectTargetPosition(@, objectData.objectId,
                                 GetMapPositionFromNavmapCoord(mapCoord, objectData.currentMap))]
    ELSE [u EXCEPT !.objs[objectData.objectId].actionTimer = NPC_LOITERING_TIMER_SECS]

\* UpdateNPC, case IDLE without a path, for the result of FindValidTarget
UpdateNPCIdleWith(u, objectData, newTargetId, rnd) ==
    IF newTargetId # 0 THEN AcquireTarget(u, objectData, u.objs[newTargetId])
    ELSE IF objectData.actionTimer < 0
    THEN Loiter(u, objectData, FacingDirections[rnd + 1],
                LoiterCoord(GetNavmapCoord(objectData.position, objectData.currentMap),
                            FacingDirections[rnd + 1]))
    ELSE u

UpdateNPCIdle(u, objectId, dt, rnd) ==
    UpdateNPCIdleWith(u, u.objs[objectId], FindValidTarget(u, u.objs[objectId], dt), rnd)

\* UpdateNPC, case MELEE_ATTACK with the action timer run out and a target entry
UpdateNPCMeleeTarget(u, objectId, targetId) ==
    IF targetId \notin DOMAIN u.objs
    THEN [u EXCEPT !.crashed = TRUE]       \* mTickObjectData->at throws
    ELSE IF ~CollidersIntersect(u.objs[targetId], u.objs[objectId])
    THEN FindPath([u EXCEPT !.objs[objectId].objectState = "IDLE"],
                  [u.objs[objectId] EXCEPT !.objectState = "IDLE"], u.objs[targetId])
    ELSE Dispatch([u EXCEPT !.objs[objectId].actionTimer = NPC_ATTACK_ANIMATION_TIMER_SECS],
                  [type |-> "NPCAttack", lhs |-> objectId, rhs |-> 0])

\* NetworkObjectUpdater::UpdateNPC, case MELEE_ATTACK
UpdateNPCMelee(u, objectId) ==
    IF ~(u.objs[objectId].actionTimer < 0) THEN u
    ELSE IF objectId \notin DOMAIN u.entries
    THEN [u EXCEPT !.objs[objectId].objectState = "IDLE"]
    ELSE UpdateNPCMeleeTarget(u, objectId, u.entries[objectId].mTargetObjectId)

\* UpdateNPC, the switch on the state of the NPC
UpdateNPCState(u, objectId, dt, rnd) ==
    CASE u.objs[objectId].objectState = "IDLE" ->
             IF DoesObjectHavePath(u.paths, objectId)
             THEN UpdateNPCPath(u, objectId, dt)
             ELSE UpdateNPCIdle(u, objectId, dt, rnd)
      [] u.objs[objectId].objectState = "RUNNING" -> [u EXCEPT !.objs[objectId].objectState = "IDLE"]
      [] u.objs[objectId].objectState = "MELEE_ATTACK" -> UpdateNPCMelee(u, objectId)
      [] OTHER -> u

\* UpdateNPC, the last statement: the action timer runs
RunActionTimer(u, objectId, dt) ==
    IF u.crashed THEN u ELSE [u EXCEPT !.objs[objectId].actionTimer = @ - dt]

\* NetworkObjectUpdater::UpdateNPC
UpdateNPC(u, objectId, dt, rnd) ==
    IF u.objs[objectId].currentMap \notin MapNames
    THEN [u EXCEPT !.crashed = TRUE]        \* GetMapMetaData().at throws
    ELSE RunActionTimer(
             UpdateNPCState([u EXCEPT !.objs[objectId].velocity = <<0, 0>>], objectId, dt, rnd),
             objectId, dt)

\* a variant of the switch on the object type that moves every object that
\* is not an NPC the way an attack is moved
UpdateNetworkObjectMovingAll(u, objectId, dt, rnd) ==
    IF u.objs[objectId].objectType = "NPC" THEN UpdateNPC(u, objectId, dt, rnd)
    ELSE UpdateAttack(u, objectId, dt)

\* NetworkObjectUpdater::UpdateNetworkObject
UpdateNetworkObject(u, objectId, dt, rnd) ==
    CASE u.objs[objectId].objectType = "ATTACK" -> UpdateAttack(u, objectId, dt)
      [] u.objs[objectId].objectType = "NPC" -> UpdateNPC(u, objectId, dt, rnd)
      [] OTHER -> u

-----------------------------------------------------------------------------
(* PathController::PathFindingWorker::FindPath: A* on the navmap of a task. *)
(* A node is its <<col, row>>; nodes maps a node to its gCost, hCost and    *)
(* parent (NoParent for the start node). openSet is the vector of the       *)
(* std::priority_queue: a binary heap of pointers to nodes, kept by         *)
(* std::push_heap and std::pop_heap (as libstdc++ writes them), which       *)
(* compare the fCost the nodes have at the time of the comparison.          *)
(* pushCount counts the calls of openSet.push.                              *)

NoParent == <<0 - 1, 0 - 1>>

\* HeuristicLambda
Heuristic(a, b) == Abs(a[1] - b[1]) + Abs(a[2] - b[2])

\* the order of the directions array, as <<dCol, dRow>> (dir[0] is the row)
Directions == << <<1, 0>>, <<0, 1>>, <<0 - 1, 0>>, <<0, 0 - 1>> >>

FCost(a, coord) == a.nodes[coord].gCost + a.nodes[coord].hCost

RECURSIVE PushHeap(_, _, _, _, _)
\* std::__push_heap: value moves from the hole at index holeIndex (counted
\* from 0) towards topIndex while CompareNode(parent, value) holds
PushHeap(a, heap, holeIndex, topIndex, value) ==
    LET parent == (holeIndex - 1) \div 2
    IN  IF holeIndex > topIndex /\ FCost(a, heap[parent + 1]) > FCost(a, value)
        THEN PushHeap(a, [heap EXCEPT ![holeIndex + 1] = heap[parent + 1]], parent, topIndex, value)
        ELSE [heap EXCEPT ![holeIndex + 1] = value]

RECURSIVE AdjustHeap(_, _, _, _, _)
\* std::__adjust_heap: the hole at index holeIndex (counted from 0) moves down
\* to a leaf, each time to the right child unless CompareNode(right, left)
\* holds; from there value is pushed up
AdjustHeap(a, heap, holeIndex, len, value) ==
    IF holeIndex < (len - 1) \div 2
    THEN LET right == 2 * (holeIndex + 1)
             child == IF FCost(a, heap[right + 1]) > FCost(a, heap[right]) THEN right - 1 ELSE right
         IN  AdjustHeap(a, [heap EXCEPT ![holeIndex + 1] = heap[child + 1]], child, len, value)
    ELSE IF len % 2 = 0 /\ holeIndex = (len - 2) \div 2
    THEN PushHeap(a, [heap EXCEPT ![holeIndex + 1] = heap[2 * (holeIndex + 1)]],
                  2 * (holeIndex + 1) - 1, 0, value)
    ELSE PushHeap(a, heap, holeIndex, 0, value)

\* openSet.pop(): std::pop_heap, then pop_back
PopHeap(a) ==
    IF Len(a.openSet) <= 1 THEN <<>>
    ELSE AdjustHeap(a, SubSeq(a.openSet, 1, Len(a.openSet) - 1), 0, Len(a.openSet) - 1,
                    a.openSet[Len(a.openSet)])

\* a variant that records no parent
AddOrUpdateNodeWithoutParent(a, coord, gCost, parent, endCoord) ==
    IF coord \notin DOMAIN a.nodes \/ gCost < a.nodes[coord].gCost
    THEN LET a1 == [a EXCEPT !.nodes = Put(@, coord, [gCost |-> gCost, hCost |-> Heuristic(coord, endCoord),
                                                     parent |-> NoParent])]
         IN  [a1 EXCEPT !.openSet = PushHeap(a1, Append(@, coord), Len(@), 0, coord),
                        !.pushCount = @ + 1]
    ELSE a

\* AddOrUpdateNode: the node is written in place, whether or not the heap
\* holds a pointer to it already, and pushed
AddOrUpdateNode(a, coord, gCost, parent, endCoord) ==
    IF coord \notin DOMAIN a.nodes \/ gCost < a.nodes[coord].gCost
    THEN LET a1 == [a EXCEPT !.nodes = Put(@, coord, [gCost |-> gCost, hCost |-> Heuristic(coord, endCoord),
                                                     parent |-> parent])]
         IN  [a1 EXCEPT !.openSet = PushHeap(a1, Append(@, coord), Len(@), 0, coord),
                        !.pushCount = @ + 1]
    ELSE a

RECURSIVE ExpandNodeThroughWalls(_, _, _, _, _)
\* a loop over the four directions that takes every tile of the grid
ExpandNodeThroughWalls(a, current, i, endCoord, map) ==
    IF i > Len(Directions) THEN a
    ELSE LET new == VecAdd(current, Directions[i])
             a1 == IF InBounds(new, map)
                   THEN AddOrUpdateNode(a, new, a.nodes[current].gCost + 1, current, endCoord)
                   ELSE a
         IN  ExpandNodeThroughWalls(a1, current, i + 1, endCoord, map)

RECURSIVE ExpandNode(_, _, _, _, _)
\* the loop over the four directions
ExpandNode(a, current, i, endCoord, map) ==
    IF i > Len(Directions) THEN a
    ELSE LET new == VecAdd(current, Directions[i])
             a1 == IF InBounds(new, map) /\ GetNavmapTileAt(new, map) = "WALKABLE"
                   THEN AddOrUpdateNode(a, new, a.nodes[current].gCost + 1, current, endCoord)
                   ELSE a
         IN  ExpandNode(a1, current, i + 1, endCoord, map)

RECURSIVE ReconstructPathWithStart(_, _, _, _)
\* a walk along the parents that keeps the start node
ReconstructPathWithStart(a, node, startCoord, map) ==
    IF node = NoParent THEN <<>>
    ELSE <<GetMapPositionFromNavmapCoord(node, map)>>
         \o ReconstructPathWithStart(a, a.nodes[node].parent, startCoord, map)

RECURSIVE ReconstructPath(_, _, _, _)
\* the walk along the parents from the end node, the start node left out
\* (resultPathVec: from the end towards the start)
ReconstructPath(a, node, startCoord, map) ==
    IF node = NoParent THEN <<>>
    ELSE (IF node # startCoord THEN <<GetMapPositionFromNavmapCoord(node, map)>> ELSE <<>>)
         \o ReconstructPath(a, a.nodes[node].parent, startCoord, map)

Reverse(seq) == [i \in 1..Len(seq) |-> seq[Len(seq) + 1 - i]]

RECURSIVE AStarLoop(_, _, _, _)
\* the main loop: the search as it is when the loop is left
AStarLoop(a, startCoord, endCoord, map) ==
    IF a.openSet = <<>> THEN a
    ELSE LET current == a.openSet[1]
             popped == [a EXCEPT !.openSet = PopHeap(a)]
         IN  IF current \in a.closedSet
             THEN AStarLoop(popped, startCoord, endCoord, map)
             ELSE IF current = endCoord
             THEN [popped EXCEPT !.closedSet = @ \cup {current},
                                 !.resultPathVec = ReconstructPath(popped, current, startCoord, map)]
             ELSE AStarLoop(ExpandNode([popped EXCEPT !.closedSet = @ \cup {current}],
                                       current, 1, endCoord, map),
                            startCoord, endCoord, map)

\* FindPath from AddOrUpdateNode(start) to the end of the main loop
Search(task) ==
    LET startCoord == GetNavmapCoord(task.mStartPosition, task.mMap)
        endCoord == GetNavmapCoord(task.mTargetPosition, task.mMap)
    IN  AStarLoop(AddOrUpdateNode([nodes |-> EmptyMap, openSet |-> <<>>, closedSet |-> {},
                                   pushCount |-> 0, resultPathVec |-> <<>>],
                                  startCoord, 0, NoParent, endCoord),
                  startCoord, endCoord, task.mMap)

\* PathFindingWorker::FindPath: the result of a task
WorkerFindPath(task) ==
    [mObjectId |-> task.mObjectId,
     mPath |-> IF GetNavmapCoord(task.mStartPosition, task.mMap) = GetNavmapCoord(task.mTargetPosition, task.mMap)
               THEN <<>>
               ELSE Reverse(Search(task).resultPathVec)]

-----------------------------------------------------------------------------
(* The worker on its own: a navmap image is loaded for WORKER_MAP and the   *)
(* worker is handed tasks between the tiles of that map.                    *)

NoTask == [mObjectId |-> 0]
NavmapTiles == (0..(NavmapSize - 1)) \X (0..(NavmapSize - 1))

\* the tiles a task can start or end in: those of the navmap, and one beyond
\* its west and one beyond its east edge (an object that walked off the map)
TaskTiles == NavmapTiles \cup {<<0 - 1, 0>>, <<NavmapSize, NavmapSize - 1>>}

\* MapDataRepository::LoadNavmapData: the pixels of the image become the
\* navmap of the map; it is read once, before any task exists
LoadNavmapData(solid) ==
    /\ findPathTask = NoTask
    /\ mNavmapPixels' = solid
    /\ UNCHANGED <<findPathTask, findPathResult>>

\* PathFindingWorker::FindPath called with a task from the centre of one
\* tile to the centre of another, inside the map or not; FindPath keeps nothing between two calls,
\* one call per navmap is followed
RunFindPath(map, startCoord, targetCoord) ==
    /\ findPathTask = NoTask
    /\ findPathTask' = [mObjectId |-> FIRST_FREE_ID, mMap |-> map,
                        mStartPosition |-> GetMapPositionFromNavmapCoord(startCoord, map),
                        mTargetPosition |-> GetMapPositionFromNavmapCoord(targetCoord, map)]
    /\ findPathResult' = WorkerFindPath(findPathTask')
    /\ UNCHANGED mNavmapPixels


-----------------------------------------------------------------------------
(* CheckForMapChange on its own: an object of the starting zone at a        *)
(* position inside, on or beyond the edges of the map, whose manifest entry *)
(* names any neighbour, or none, in each direction.                         *)

\* how far past an edge the positions tried lie
EdgeMargin == 1

\* one call of CheckForMapChange; the calls do not depend on one another,
\* one call is followed
RunCheckForMapChange(position, connections) ==
    LET meta == [MapMetaData(STARTING_ZONE) EXCEPT !.mMapConnections = connections]
        objectData == [NewPlayer(FIRST_FREE_ID, position) EXCEPT !.objectType = "NPC"]
    IN  /\ checkedObject = [objectId |-> 0]
        /\ checkedObject' = [objectId |-> objectData.objectId, data |-> objectData, meta |-> meta]
        /\ checkResult' = CheckForMapChange(objectData, meta)

-----------------------------------------------------------------------------
(* MapDataRepository::LoadMapData on its own: the manifest names some maps, *)
(* the navmap directory holds the images of some maps, and some of these    *)
(* images cannot be decoded.                                                *)

\* the maps an assets directory can name
AssetMapNames == MapNames \cup {"forest_3"}

\* the variables of the parts of the server that are run on their own
componentVars ==
    <<mNavmapPixels, findPathTask, findPathResult, checkedObject, checkResult, mapDataRepo, destroyedCall>>

\* the server runs on the repository loaded from its own assets: the navmap
\* of WORKER_MAP has no SOLID tile; its worker was handed no task, and
\* neither CheckForMapChange nor OnObjectDestroyedEvent was called yet
InitRepository ==
    /\ destroyedCall = [mObjectId |-> 0]
    /\ mapDataRepo = [mMapMetaData |-> MapNames, mNavmaps |-> MapNames, mMapQuadtrees |-> MapNames,
                      errorsLogged |-> {}, outcome |-> "LOADED"]
    /\ mNavmapPixels = {}
    /\ findPathTask = NoTask
    /\ findPathResult = [mObjectId |-> 0, mPath |-> <<>>]
    /\ checkedObject = [objectId |-> 0]
    /\ checkResult = [changed |-> FALSE]

\* LoadMapMetaData, LoadNavmapData, CreateQuadtrees: an image that fails to
\* decode is logged and left out, and LoadMapData returns to main
LoadMapData(manifest, navmapFiles, undecodable) ==
    mapDataRepo' = [mMapMetaData |-> manifest,
                    mNavmaps |-> navmapFiles \ undecodable,
                    mMapQuadtrees |-> manifest,
                    errorsLogged |-> navmapFiles \cap undecodable,
                    outcome |-> "LOADED"]

-----------------------------------------------------------------------------
(* NetworkObjectUpdater::OnObjectDestroyedEvent on its own: the event names *)
(* any object id, and the updater holds paths and NPC target entries of any *)
(* of the ids.                                                              *)

\* the handler is called once, for the event of objectId
RunOnObjectDestroyedEvent(objectId, paths, entries) ==
    /\ destroyedCall.mObjectId = 0
    /\ destroyedCall' = [mObjectId |-> objectId,
                         before |-> [paths |-> paths, entries |-> entries],
                         after |-> OnObjectDestroyedEvent([paths |-> paths, entries |-> entries], objectId)]

-----------------------------------------------------------------------------
(* EventSystem (EventSystem.h, EventSystem.cpp).  A listener is named by   *)
(* its mInstanceId; the IListener* the bus stores for it is its address,    *)
(* which the allocator may hand out again once the listener is destroyed.   *)
(* Callbacks run synchronously inside DispatchEvent: what happens between   *)
(* two invocations of one dispatch is done by the callback that was         *)
(* invoked last.                                                            *)

EventTypes == {"ObjectDestroyedEvent", "NetworkObjectCollisionEvent"}
NoDispatch == [event |-> "", callbackIter |-> 0]
NoInvocation == [listener |-> 0 - 1, alive |-> TRUE]

busVars ==
    <<listeners, listenerAddress, sInstanceIdCounter, mEventCallbacks, mEventIdToDeadListenerIds, dispatching, invoked,
      registrationOrder>>

InitBus ==
    /\ listeners = {}
    /\ listenerAddress = [l \in 0..(MaxListeners - 1) |-> 0]   \* none constructed yet
    /\ sInstanceIdCounter = 0
    /\ mEventCallbacks = [e \in EventTypes |-> <<>>]
    /\ mEventIdToDeadListenerIds = EmptyMap
    /\ dispatching = NoDispatch
    /\ invoked = NoInvocation
    /\ registrationOrder = [e \in EventTypes |-> <<>>]

\* the elements of a sequence that are not in a set, in their order
RECURSIVE Without(_, _)
Without(seq, S) ==
    IF seq = <<>> THEN <<>>
    ELSE (IF Head(seq) \in S THEN <<>> ELSE <<Head(seq)>>) \o Without(Tail(seq), S)

SeqElems(seq) == {seq[i] : i \in 1..Len(seq)}

\* EventSystem::CleanCallbacks, deadListenerIter->first == callbackIter->first:
\* the dead listeners recorded with the pointer of a callback
DeadAtAddressOf(listener, deadListeners) ==
    {d \in deadListeners : listenerAddress[d] = listenerAddress[listener]}

\* EventSystem::CleanCallbacks: the callbacks of the event it erases
ErasedCallbacks(callbacks, dead, event) ==
    IF event \in DOMAIN dead
    THEN {l \in SeqElems(callbacks[event]) : DeadAtAddressOf(l, dead[event]) # {}}
    ELSE {}

\* EventSystem::CleanCallbacks: the callbacks of the event after it
CleanedCallbacks(callbacks, dead, event) ==
    Without(callbacks[event], ErasedCallbacks(callbacks, dead, event))

\* EventSystem::CleanCallbacks: the dead listeners of the event after it (the
\* entry of the event is created; with every callback erased, one entry of
\* its pointer is erased: the first one the unordered_set yields, of entries
\* that differ in nothing the bus ever compares)
CleanedDeadListeners(callbacks, dead, event) ==
    IF event \in DOMAIN dead
    THEN dead[event] \ { CHOOSE d \in DeadAtAddressOf(l, dead[event]) :
                             \A other \in DeadAtAddressOf(l, dead[event]) : d <= other
                         : l \in ErasedCallbacks(callbacks, dead, event) }
    ELSE {}

\* std::set::insert with the operator< of EventSystem.h: the elements are
\* ordered by mInstanceId and a listener has at most one callback per event
InsertCallback(seq, listener) ==
    IF listener \in SeqElems(seq) THEN seq
    ELSE SetToSeq(SeqElems(seq) \cup {listener})

\* IListener::IListener, at an address no live listener occupies
CreateListener(address) ==
    /\ sInstanceIdCounter < MaxListeners
    /\ address \notin {listenerAddress[l] : l \in listeners}
    /\ listeners' = listeners \cup {sInstanceIdCounter}
    /\ listenerAddress' = [listenerAddress EXCEPT ![sInstanceIdCounter] = address]
    /\ sInstanceIdCounter' = sInstanceIdCounter + 1
    /\ UNCHANGED <<mEventCallbacks, mEventIdToDeadListenerIds, dispatching, invoked, registrationOrder>>

\* EventSystem::RegisterForEvent(listener, callback)
RegisterForEvent(listener, event) ==
    /\ listener \in listeners
    /\ dispatching = NoDispatch
    /\ mEventCallbacks' = [mEventCallbacks EXCEPT ![event] =
           InsertCallback(CleanedCallbacks(mEventCallbacks, mEventIdToDeadListenerIds, event), listener)]
    /\ mEventIdToDeadListenerIds' = Put(mEventIdToDeadListenerIds, event,
           CleanedDeadListeners(mEventCallbacks, mEventIdToDeadListenerIds, event))
    /\ registrationOrder' = [registrationOrder EXCEPT ![event] =
           IF listener \in SeqElems(@) THEN @ ELSE Append(@, listener)]
    /\ UNCHANGED <<listeners, listenerAddress, sInstanceIdCounter, dispatching, invoked>>

\* IListener::~IListener -> EventSystem::UnregisterAllEventsForListener
DestroyListener(listener) ==
    /\ listener \in listeners
    /\ dispatching = NoDispatch \/ invoked # NoInvocation   \* done by a running callback
    /\ listeners' = listeners \ {listener}
    /\ mEventIdToDeadListenerIds' =
           [e \in DOMAIN mEventIdToDeadListenerIds |-> mEventIdToDeadListenerIds[e] \cup {listener}]
    /\ UNCHANGED <<listenerAddress, sInstanceIdCounter, mEventCallbacks, dispatching, invoked,
                   registrationOrder>>

\* EventSystem::DispatchEvent, up to the loop: CleanCallbacks
BeginDispatch(event) ==
    /\ dispatching = NoDispatch
    /\ mEventCallbacks' = [mEventCallbacks EXCEPT ![event] =
           CleanedCallbacks(mEventCallbacks, mEventIdToDeadListenerIds, event)]
    /\ mEventIdToDeadListenerIds' = Put(mEventIdToDeadListenerIds, event,
           CleanedDeadListeners(mEventCallbacks, mEventIdToDeadListenerIds, event))
    /\ dispatching' = [event |-> event, callbackIter |-> 1]
    /\ invoked' = NoInvocation
    /\ UNCHANGED <<listeners, listenerAddress, sInstanceIdCounter, registrationOrder>>

\* EventSystem::DispatchEvent, one iteration of the loop:
\* callbackIter->second(event); callbackIter++
InvokeCallback ==
    /\ dispatching # NoDispatch
    /\ dispatching.callbackIter <= Len(mEventCallbacks[dispatching.event])
    /\ invoked' = [listener |-> mEventCallbacks[dispatching.event][dispatching.callbackIter],
                   alive |-> mEventCallbacks[dispatching.event][dispatching.callbackIter] \in listeners]
    /\ dispatching' = [dispatching EXCEPT !.callbackIter = @ + 1]
    /\ UNCHANGED <<listeners, listenerAddress, sInstanceIdCounter, mEventCallbacks,
                   mEventIdToDeadListenerIds, registrationOrder>>

\* EventSystem::DispatchEvent, the end of the loop
EndDispatch ==
    /\ dispatching # NoDispatch
    /\ dispatching.callbackIter > Len(mEventCallbacks[dispatching.event])
    /\ dispatching' = NoDispatch
    /\ invoked' = NoInvocation
    /\ UNCHANGED <<listeners, listenerAddress, sInstanceIdCounter, mEventCallbacks,
                   mEventIdToDeadListenerIds, registrationOrder>>

-----------------------------------------------------------------------------
(* ThreadSafeQueue (ThreadSafeQueue.h) under its threads: the simulation    *)
(* thread (PathController::FindPath, PathController::Update) and the        *)
(* workers (PathFindingWorker::StartWorker).  An element of a queue is      *)
(* [request, mObjectId]: the number of the FindPath call it stems from and  *)
(* the object id the task or the result carries.                            *)

SimThread == 0
Unlocked == 0 - 1
Threads == {SimThread} \cup Workers
QueueNames == {"tasks", "results"}

queueVars == <<q, mutex, requested, pc, sizeRead, waited, notified, held, served, applied>>

InitQueue ==
    /\ q = [n \in QueueNames |-> <<>>]
    /\ mutex = [n \in QueueNames |-> Unlocked]
    /\ requested = 0
    /\ pc = [t \in Threads |-> IF t = SimThread THEN "run" ELSE "deq"]
    /\ sizeRead = [value |-> 0, raced |-> FALSE]
    /\ waited = {}
    /\ notified = {}
    /\ held = [t \in Threads |-> [request |-> 0, mObjectId |-> 0]]
    /\ served = [r \in 1..MaxRequests |-> [mObjectId |-> 0, dequeuedBy |-> <<>>, results |-> <<>>]]
    /\ applied = <<>>

\* the queue a thread dequeues from and the one it enqueues to
DequeuesFrom(t) == IF t = SimThread THEN "results" ELSE "tasks"
EnqueuesTo(t) == IF t = SimThread THEN "tasks" ELSE "results"
QueueOf(t) == IF pc[t] \in {"enq", "push"} THEN EnqueuesTo(t) ELSE DequeuesFrom(t)

\* ThreadSafeQueue::size takes no lock: a read that overlaps q.push of a
\* worker is a data race and may produce any value
PushInProgress == \E w \in Workers : mutex["results"] = w /\ pc[w] = "push"
SizeOutcomes == IF PushInProgress THEN 0..(Len(q["results"]) + 1) ELSE {Len(q["results"])}

\* a variant of the loop condition that dequeues whatever size() returned
UpdateLoopAlways(size) == TRUE

\* PathController::Update: while (mPathFindingResults.size())
UpdateLoopContinues(size) == size # 0

\* PathController::FindPath is called by the simulation thread for an
\* object; the first call is made for the seed NPC, the only NPC at first
CallFindPath(objectId) ==
    /\ pc[SimThread] = "run"
    /\ requested < MaxRequests
    /\ requested = 0 => objectId = 1
    /\ requested' = requested + 1
    /\ held' = [held EXCEPT ![SimThread] = [request |-> requested + 1, mObjectId |-> objectId]]
    /\ served' = [served EXCEPT ![requested + 1].mObjectId = objectId]
    /\ pc' = [pc EXCEPT ![SimThread] = "enq"]
    /\ UNCHANGED <<q, mutex, sizeRead, waited, notified, applied>>

\* PathController::Update is called by the simulation thread
CallUpdate ==
    /\ pc[SimThread] = "run"
    /\ pc' = [pc EXCEPT ![SimThread] = "size"]
    /\ sizeRead' = [value |-> 0, raced |-> FALSE]
    /\ UNCHANGED <<q, mutex, requested, waited, notified, held, served, applied>>

\* PathController::Update: the loop condition
ReadSize(size) ==
    /\ pc[SimThread] = "size"
    /\ sizeRead' = [value |-> size, raced |-> PushInProgress]
    /\ pc' = [pc EXCEPT ![SimThread] = IF UpdateLoopContinues(size) THEN "deq" ELSE "run"]
    /\ UNCHANGED <<q, mutex, requested, waited, notified, held, served, applied>>

\* ThreadSafeQueue::enqueue / dequeue: the lock is taken
Lock(t) ==
    /\ pc[t] \in {"enq", "deq"}
    /\ mutex[QueueOf(t)] = Unlocked
    /\ mutex' = [mutex EXCEPT ![QueueOf(t)] = t]
    /\ pc' = [pc EXCEPT ![t] = IF pc[t] = "enq" THEN "push" ELSE "test"]
    /\ UNCHANGED <<q, requested, sizeRead, waited, notified, held, served, applied>>

\* ThreadSafeQueue::enqueue: q.push(t); c.notify_one() unblocks the thread
\* `woken`, one of those blocked in c.wait of the queue that no notify has
\* reached yet, if there is one; the lock is released
Push(t, woken) ==
    /\ pc[t] = "push"
    /\ LET waiters == {w \in Threads : pc[w] = "wait" /\ DequeuesFrom(w) = QueueOf(t) /\ w \notin notified}
       IN  IF waiters = {} THEN woken = t ELSE woken \in waiters
    /\ notified' = IF woken = t THEN notified ELSE notified \cup {woken}
    /\ q' = [q EXCEPT ![QueueOf(t)] = Append(@, held[t])]
    /\ served' = IF t = SimThread THEN served
                 ELSE [served EXCEPT ![held[t].request].results = Append(@, held[t].mObjectId)]
    /\ held' = [held EXCEPT ![t] = [request |-> 0, mObjectId |-> 0]]
    /\ mutex' = [mutex EXCEPT ![QueueOf(t)] = Unlocked]
    /\ pc' = [pc EXCEPT ![t] = IF t = SimThread THEN "run" ELSE "deq"]
    /\ UNCHANGED <<requested, sizeRead, waited, applied>>

\* a variant of dequeue in which a worker reads the front element and
\* leaves it in the queue
TestKeepingFront(t) ==
    /\ pc[t] = "test"
    /\ mutex' = [mutex EXCEPT ![QueueOf(t)] = Unlocked]
    /\ IF q[QueueOf(t)] = <<>>
       THEN /\ pc' = [pc EXCEPT ![t] = "wait"]
            /\ waited' = waited \cup {t}
            /\ UNCHANGED <<q, held, served, applied>>
       ELSE /\ pc' = [pc EXCEPT ![t] = IF t = SimThread THEN "size" ELSE "compute"]
            /\ IF t = SimThread
               THEN /\ q' = [q EXCEPT ![QueueOf(t)] = Tail(@)]
                    /\ applied' = Append(applied, Head(q[QueueOf(t)]))
                    /\ UNCHANGED <<held, served>>
               ELSE /\ held' = [held EXCEPT ![t] = Head(q[QueueOf(t)])]
                    /\ served' = [served EXCEPT ![Head(q[QueueOf(t)]).request].dequeuedBy = Append(@, t)]
                    /\ UNCHANGED <<q, applied>>
            /\ UNCHANGED waited
    /\ UNCHANGED <<requested, sizeRead, notified>>

\* ThreadSafeQueue::dequeue: while (q.empty()) c.wait(lock); otherwise the
\* front element is popped and the lock is released; PathController::Update
\* applies the result it dequeued
Test(t) ==
    /\ pc[t] = "test"
    /\ mutex' = [mutex EXCEPT ![QueueOf(t)] = Unlocked]
    /\ IF q[QueueOf(t)] = <<>>
       THEN /\ pc' = [pc EXCEPT ![t] = "wait"]
            /\ waited' = waited \cup {t}
            /\ UNCHANGED <<q, held, served, applied>>
       ELSE /\ pc' = [pc EXCEPT ![t] = IF t = SimThread THEN "size" ELSE "compute"]
            /\ q' = [q EXCEPT ![QueueOf(t)] = Tail(@)]
            /\ IF t = SimThread
               THEN /\ applied' = Append(applied, Head(q[QueueOf(t)]))
                    /\ UNCHANGED <<held, served>>
               ELSE /\ held' = [held EXCEPT ![t] = Head(q[QueueOf(t)])]
                    /\ served' = [served EXCEPT ![Head(q[QueueOf(t)]).request].dequeuedBy = Append(@, t)]
                    /\ UNCHANGED applied
            /\ UNCHANGED waited
    /\ UNCHANGED <<requested, sizeRead, notified>>

\* ThreadSafeQueue::dequeue: c.wait returns (notified or spuriously) with
\* the lock taken again
Wake(t) ==
    /\ pc[t] = "wait"
    /\ mutex[QueueOf(t)] = Unlocked
    /\ mutex' = [mutex EXCEPT ![QueueOf(t)] = t]
    /\ pc' = [pc EXCEPT ![t] = "test"]
    /\ notified' = notified \ {t}
    /\ UNCHANGED <<q, requested, sizeRead, waited, held, served, applied>>

\* PathFindingWorker::StartWorker: FindPath(task), whose result carries
\* the object id of the task
Compute(w) ==
    /\ pc[w] = "compute"
    /\ held' = [held EXCEPT ![w] = [request |-> held[w].request, mObjectId |-> held[w].mObjectId]]
    /\ pc' = [pc EXCEPT ![w] = "enq"]
    /\ UNCHANGED <<q, mutex, requested, sizeRead, waited, notified, served, applied>>

-----------------------------------------------------------------------------
(* main.cpp: the state after construction *)

\* what a tick publishes; done is FALSE in every state that is not the end
\* of a tick
NoTick ==
    [done |-> FALSE, dt |-> 0, updated |-> {}, events |-> {}, checks |-> {},
     created |-> {}, destroyed |-> {}, broadcasts |-> <<>>, staleResults |-> {},
     drained |-> <<>>, pathsBefore |-> EmptyMap, pathsUpdated |-> EmptyMap]

InitServer ==
    /\ running = TRUE
    /\ objectDataMap = [id \in {1} |-> SeedNPC]
    /\ peerToPlayerId = [p \in Peers |-> 0]
    /\ pendingObjectsToSpawn = EmptyMap
    /\ tempObjectTTL = EmptyMap
    /\ nextId = FIRST_FREE_ID
    /\ sinceLastTick = 0
    /\ tickCount = 0
    /\ eventCount = 0
    /\ quadtrees = [map \in MapNames |-> {}]
    /\ mPaths = EmptyMap
    /\ mNPCToTargetEntries = EmptyMap
    /\ mPathFindingTasks = <<>>
    /\ mPathFindingResults = <<>>
    /\ lastTick = NoTick
    /\ history = EmptyMap
    /\ sinceNPCAttack = EmptyMap
    /\ responseMessage = <<>>

serverVars ==
    <<running, objectDataMap, peerToPlayerId, pendingObjectsToSpawn, tempObjectTTL,
      nextId, sinceLastTick, tickCount, eventCount, quadtrees, mPaths, mNPCToTargetEntries,
      mPathFindingTasks, mPathFindingResults, lastTick, history, sinceNPCAttack,
      responseMessage>>

-----------------------------------------------------------------------------
(* main.cpp: the transport events *)

Tile(col, row) == GetMapPositionFromNavmapCoord(<<col, row>>, STARTING_ZONE)

\* the records a client sends in an ObjectStateUpdateMessage for its object
ClientStates(playerId) ==
    LET base == NewPlayer(playerId, Tile(0, 0))
    IN  { \* a player standing on the south edge of the map, facing SOUTH
          [base EXCEPT !.position = Tile(0, NavmapSize - 1)],
          \* a record with the type of an NPC, next to the seed NPC
          [base EXCEPT !.objectType = "NPC", !.objectState = "IDLE",
                       !.position = Tile(0, NavmapSize \div 2),
                       !.speed = PLAYER_BASE_SPEED \div 2, !.actionTimer = 0 - 1],
          \* the same beyond the west edge of the map
          [base EXCEPT !.objectType = "NPC", !.objectState = "IDLE",
                       !.position = VecAdd(Tile(0, NavmapSize \div 2), <<0 - 2 * MAP_TILE_SIZE, 0>>),
                       !.speed = PLAYER_BASE_SPEED \div 2, !.actionTimer = 0 - 1],
          \* a record with the type of a projectile flying SOUTH, one tile
          \* north of the SOLID tile
          [base EXCEPT !.objectType = "ATTACK", !.attackType = "PROJECTILE",
                       !.objectState = "IDLE",
                       !.position = Tile(1, NavmapSize - 2),
                       !.velocity = <<0, 0 - MAP_TILE_SIZE>>],
          \* a record naming a map the server does not know
          [base EXCEPT !.currentMap = "unknown"],
          \* a record carrying the id of another object
          [base EXCEPT !.objectId = playerId + 1] }

\* the attacker ids a client names in attack messages: its own object, the
\* seed NPC, and an id no object has
AttackerIds(playerId) == {playerId, 1, 0}

\* a variant of the connection that hands out the lowest id no object holds
ConnectWithFreedId(peer, spawn) ==
    LET free == {id \in FIRST_FREE_ID..MaxId : id \notin DOMAIN objectDataMap}
        id == CHOOSE i \in free : \A j \in free : i <= j
    IN  /\ running
        /\ eventCount' = eventCount + 1
        /\ peerToPlayerId[peer] = 0
        /\ free # {}
        /\ peerToPlayerId' = [peerToPlayerId EXCEPT ![peer] = id]
        /\ objectDataMap' = Put(objectDataMap, id, NewPlayer(id, spawn))
        /\ nextId' = IF id = nextId THEN nextId + 1 ELSE nextId
        /\ lastTick' = NoTick /\ responseMessage' = <<>> /\ UNCHANGED sinceNPCAttack
        /\ UNCHANGED <<running, pendingObjectsToSpawn, tempObjectTTL, sinceLastTick, tickCount,
                       quadtrees, mPaths, mNPCToTargetEntries, mPathFindingTasks,
                       mPathFindingResults, history>>

\* ENET_EVENT_TYPE_CONNECT
Connect(peer, spawn) ==
    /\ running
    /\ eventCount' = eventCount + 1
    /\ peerToPlayerId[peer] = 0
    /\ nextId <= MaxId
    /\ peerToPlayerId' = [peerToPlayerId EXCEPT ![peer] = nextId]
    /\ objectDataMap' = Put(objectDataMap, nextId, NewPlayer(nextId, spawn))
    /\ nextId' = nextId + 1
    /\ lastTick' = NoTick /\ responseMessage' = <<>> /\ UNCHANGED sinceNPCAttack
    /\ UNCHANGED <<running, pendingObjectsToSpawn, tempObjectTTL, sinceLastTick, tickCount,
                   quadtrees, mPaths, mNPCToTargetEntries, mPathFindingTasks,
                   mPathFindingResults, history>>

\* ObjectStateUpdateMessage
ObjectStateUpdate(peer, data) ==
    /\ running
    /\ eventCount' = eventCount + 1
    /\ peerToPlayerId[peer] # 0
    /\ \/ /\ peerToPlayerId[peer] # data.objectId  \* the assert fails
          /\ running' = FALSE
          /\ UNCHANGED objectDataMap
       \/ \* the assert passes, or the build (NDEBUG) has no asserts
          /\ objectDataMap' = Put(objectDataMap, peerToPlayerId[peer], data)
          /\ UNCHANGED running
    /\ lastTick' = NoTick /\ responseMessage' = <<>> /\ UNCHANGED sinceNPCAttack
    /\ UNCHANGED <<peerToPlayerId, pendingObjectsToSpawn, tempObjectTTL, nextId, sinceLastTick,
                   tickCount, quadtrees, mPaths, mNPCToTargetEntries, mPathFindingTasks,
                   mPathFindingResults, history>>

\* CancelAttackMessage
\* a variant of the selection below that selects nothing
PendingOfNobody(pending, attackerId) == {}

\* the pending spawns CancelAttackMessage erases: those of the attacker
PendingOfParent(pending, attackerId) ==
    {id \in DOMAIN pending : pending[id].data.parentObjectId = attackerId}

CancelAttack(peer, attackerId) ==
    LET dropped == PendingOfParent(pendingObjectsToSpawn, attackerId)
    IN  /\ running
        /\ eventCount' = eventCount + 1
        /\ peerToPlayerId[peer] # 0
        /\ pendingObjectsToSpawn' = [id \in DOMAIN pendingObjectsToSpawn \ dropped |-> pendingObjectsToSpawn[id]]
        /\ tempObjectTTL' = [id \in DOMAIN tempObjectTTL \ dropped |-> tempObjectTTL[id]]
        /\ history' = [id \in DOMAIN history |->
                          IF history[id].parent = attackerId /\ history[id].createdAt < 0
                          THEN [history[id] EXCEPT !.cancelled = TRUE] ELSE history[id]]
        /\ lastTick' = NoTick /\ responseMessage' = <<>> /\ UNCHANGED sinceNPCAttack
        /\ UNCHANGED <<running, objectDataMap, peerToPlayerId, nextId, sinceLastTick, tickCount,
                       quadtrees, mPaths, mNPCToTargetEntries, mPathFindingTasks,
                       mPathFindingResults>>

\* a variant of the response that carries the melee charge time whatever the
\* attack type
BeginAttackResponseCharged(allowed, attackerId, attackType, chargeDurationSecs) ==
    [allowed |-> allowed, attackerId |-> attackerId, attackType |-> attackType,
     chargeDurationSecs |-> FAST_MELEE_CHARGE_TIME_SECS]

\* the BeginAttackResponseMessage of the handler (the projectile type, which it
\* copies from the request, left out)
BeginAttackResponse(allowed, attackerId, attackType, chargeDurationSecs) ==
    [allowed |-> allowed, attackerId |-> attackerId, attackType |-> attackType,
     chargeDurationSecs |-> chargeDurationSecs]

\* BeginAttackRequestMessage
BeginAttackRequest(peer, attackerId, attackType) ==
    /\ running
    /\ eventCount' = eventCount + 1
    /\ peerToPlayerId[peer] # 0
    /\ lastTick' = NoTick
    /\ UNCHANGED sinceNPCAttack
    /\ IF attackerId \notin DOMAIN objectDataMap
       THEN /\ running' = FALSE                  \* objectDataMap.at throws
            /\ responseMessage' = <<>>
            /\ UNCHANGED <<pendingObjectsToSpawn, tempObjectTTL, nextId, history>>
       ELSE IF attackType = "MELEE"
       THEN /\ nextId <= MaxId
            /\ responseMessage' = <<BeginAttackResponse(TRUE, attackerId, attackType,
                                                        FAST_MELEE_CHARGE_TIME_SECS)>>
            /\ nextId' = nextId + 1
            /\ pendingObjectsToSpawn' = Put(pendingObjectsToSpawn, nextId,
                   [data |-> NewMeleeAttack(nextId, objectDataMap[attackerId]),
                    timeToSpawn |-> FAST_MELEE_CHARGE_TIME_SECS])
            /\ tempObjectTTL' = Put(tempObjectTTL, nextId, FAST_MELEE_SLASH_TIME_SECS)
            /\ history' = Put(history, nextId,
                   [parent |-> attackerId, age |-> 0, ticked |-> 0, lived |-> 0,
                    createdAt |-> 0 - 1, destroyedAt |-> 0 - 1, cancelled |-> FALSE])
            /\ UNCHANGED running
       ELSE /\ responseMessage' = <<BeginAttackResponse(FALSE, attackerId, attackType, 0)>>
            /\ UNCHANGED <<running, pendingObjectsToSpawn, tempObjectTTL, nextId, history>>
    /\ UNCHANGED <<objectDataMap, peerToPlayerId, sinceLastTick, tickCount, quadtrees, mPaths,
                   mNPCToTargetEntries, mPathFindingTasks, mPathFindingResults>>

\* ENET_EVENT_TYPE_DISCONNECT
Disconnect(peer) ==
    /\ running
    /\ eventCount' = eventCount + 1
    /\ peerToPlayerId[peer] # 0
    /\ objectDataMap' = Remove(objectDataMap, peerToPlayerId[peer])
    /\ peerToPlayerId' = [peerToPlayerId EXCEPT ![peer] = 0]
    /\ lastTick' = NoTick /\ responseMessage' = <<>> /\ UNCHANGED sinceNPCAttack
    /\ UNCHANGED <<running, pendingObjectsToSpawn, tempObjectTTL, nextId, sinceLastTick, tickCount,
                   quadtrees, mPaths, mNPCToTargetEntries, mPathFindingTasks,
                   mPathFindingResults, history>>


-----------------------------------------------------------------------------
(* main.cpp: the tick *)

\* NetworkObjectUpdater::PerformPreUpdateSetup: mObjectIdsPerMap
ObjectIdsPerMap(objs) ==
    [map \in {objs[id].currentMap : id \in DOMAIN objs} |->
        SetToSeq({id \in DOMAIN objs : objs[id].currentMap = map})]

\* a variant of the lifetime bookkeeping that never schedules a removal
UpdateLifetimeNoRemoval(u, objectId, dt) ==
    IF objectId \in DOMAIN u.ttl THEN [u EXCEPT !.ttl[objectId] = @ - dt] ELSE u

\* the lifetime bookkeeping of one object after its update
UpdateLifetime(u, objectId, dt) ==
    IF objectId \in DOMAIN u.ttl
    THEN [u EXCEPT !.ttl[objectId] = @ - dt,
                   !.toRemove = IF u.ttl[objectId] - dt <= 0 THEN Append(@, objectId) ELSE @]
    ELSE u

\* "Fill quadtrees": GetMapQuadtree asserts that the map is known
InsertObject(u, objectId) ==
    IF u.objs[objectId].currentMap \notin MapNames
    THEN [u EXCEPT !.crashed = TRUE]
    ELSE [u EXCEPT !.quad[u.objs[objectId].currentMap] = @ \cup {objectId}]

\* one iteration of the main object update loop, after the update of the
\* object: its lifetime and its quadtree entry
AfterUpdate(u, objectId, dt) ==
    IF u.crashed THEN u ELSE InsertObject(UpdateLifetime(u, objectId, dt), objectId)

RECURSIVE UpdateObjects(_, _, _, _)
\* the main object update loop
UpdateObjects(u, ids, dt, rnd) ==
    IF ids = <<>> \/ u.crashed THEN u
    ELSE UpdateObjects(
             AfterUpdate(UpdateNetworkObject(u, Head(ids), dt,
                                             IF Head(ids) \in DOMAIN rnd THEN rnd[Head(ids)] ELSE 0),
                         Head(ids), dt),
             Tail(ids), dt, rnd)

\* a variant that spawns only once the time to spawn is below zero
SpawnReadyStrict(pending, dt) == {id \in DOMAIN pending : pending[id].timeToSpawn - dt < 0}

\* "Update and move objects ready to spawn into main object data map"
SpawnReady(pending, dt) == {id \in DOMAIN pending : pending[id].timeToSpawn - dt <= 0}

\* a variant of the commit that runs the lifetime of what it commits
CommitPendingObjectsAged(u, pending, dt) ==
    [u EXCEPT !.objs = [id \in DOMAIN u.objs \cup SpawnReady(pending, dt) |->
                            IF id \in SpawnReady(pending, dt) THEN pending[id].data ELSE u.objs[id]],
              !.ttl = [id \in DOMAIN u.ttl |->
                            IF id \in SpawnReady(pending, dt) THEN u.ttl[id] - dt ELSE u.ttl[id]],
              !.created = SpawnReady(pending, dt),
              !.broadcasts = @ \o [i \in 1..Cardinality(SpawnReady(pending, dt)) |->
                                     [type |-> "ObjectCreated",
                                      objectId |-> SetToSeq(SpawnReady(pending, dt))[i]]]]

CommitPendingObjects(u, pending, dt) ==
    [u EXCEPT !.objs = [id \in DOMAIN u.objs \cup SpawnReady(pending, dt) |->
                            IF id \in SpawnReady(pending, dt) THEN pending[id].data ELSE u.objs[id]],
              !.created = SpawnReady(pending, dt),
              !.broadcasts = @ \o [i \in 1..Cardinality(SpawnReady(pending, dt)) |->
                                     [type |-> "ObjectCreated",
                                      objectId |-> SetToSeq(SpawnReady(pending, dt))[i]]]]

RemainingPendingObjects(pending, dt) ==
    [id \in DOMAIN pending \ SpawnReady(pending, dt) |->
        [pending[id] EXCEPT !.timeToSpawn = @ - dt]]

\* a variant of the removal below that leaves the object in the table
RemoveObjectFromTimersOnly(u, objectId) ==
    [OnObjectDestroyedEvent(Dispatch(u, [type |-> "ObjectDestroyed", lhs |-> objectId, rhs |-> 0]), objectId)
     EXCEPT !.destroyed = @ \cup {objectId},
            !.broadcasts = Append(@, [type |-> "ObjectDestroyed", objectId |-> objectId]),
            !.ttl = Remove(@, objectId)]

\* the removal of one object: the updater reacts to its ObjectDestroyedEvent
RemoveObject(u, objectId) ==
    [OnObjectDestroyedEvent(Dispatch(u, [type |-> "ObjectDestroyed", lhs |-> objectId, rhs |-> 0]), objectId)
     EXCEPT !.destroyed = @ \cup {objectId},
            !.broadcasts = Append(@, [type |-> "ObjectDestroyed", objectId |-> objectId]),
            !.ttl = Remove(@, objectId),
            !.objs = Remove(@, objectId)]

RECURSIVE RemoveObjects(_, _)
\* "Remove objects whose lifetime is over"
RemoveObjects(u, ids) ==
    IF ids = <<>> THEN u
    ELSE RemoveObjects(RemoveObject(u, Head(ids)), Tail(ids))

\* the ids that may draw a loitering direction in a tick
LoiterCandidates ==
    {id \in DOMAIN objectDataMap :
        /\ objectDataMap[id].objectType = "NPC"
        /\ objectDataMap[id].objectState = "IDLE"
        /\ objectDataMap[id].actionTimer < 0}

\* the tick after the main object update loop
FinishTick(u, pending, dt) ==
    IF u.crashed THEN u
    ELSE RemoveObjects(CommitPendingObjects(u, pending, dt), u.toRemove)

\* "Broadcast snapshots": one ObjectStateUpdateMessage per object of the table
BroadcastSnapshots(objs) == {objs[id] : id \in DOMAIN objs}

\* the whole tick, from the state at its start
TickResult(dt, rnd) ==
    FinishTick(
        UpdateObjects([objs |-> objectDataMap,
                       paths |-> DrainResults(mPaths, mPathFindingResults),
                       entries |-> mNPCToTargetEntries,
                       tasks |-> mPathFindingTasks,
                       ttl |-> tempObjectTTL,
                       idsPerMap |-> ObjectIdsPerMap(objectDataMap),
                       quad |-> [map \in MapNames |-> {}],
                       toRemove |-> <<>>,
                       events |-> {}, checks |-> {}, created |-> {}, destroyed |-> {},
                       broadcasts |-> <<>>,
                       crashed |-> FALSE],
                      SetToSeq(DOMAIN objectDataMap), dt, rnd),
        pendingObjectsToSpawn, dt)

\* the object ids of the queued results that are not in the object table
StaleResults ==
    {mPathFindingResults[i].mObjectId :
        i \in {j \in 1..Len(mPathFindingResults) :
                  mPathFindingResults[j].mObjectId \notin DOMAIN objectDataMap}}

Tick(rnd) ==
    /\ running
    /\ sinceLastTick >= TICK_INTERVAL
    /\ tickCount < MaxTicks
    /\ \E u \in {TickResult(sinceLastTick, rnd)} :
        IF u.crashed
        THEN /\ running' = FALSE
             /\ lastTick' = NoTick /\ responseMessage' = <<>> /\ UNCHANGED sinceNPCAttack
             /\ UNCHANGED <<objectDataMap, pendingObjectsToSpawn, tempObjectTTL, sinceLastTick,
                            tickCount, quadtrees, mPaths, mNPCToTargetEntries,
                            mPathFindingTasks, mPathFindingResults, history>>
        ELSE /\ objectDataMap' = u.objs
             /\ pendingObjectsToSpawn' = RemainingPendingObjects(pendingObjectsToSpawn, sinceLastTick)
             /\ tempObjectTTL' = u.ttl
             /\ quadtrees' = u.quad
             /\ mPaths' = u.paths
             /\ mNPCToTargetEntries' = u.entries
             /\ mPathFindingTasks' = u.tasks
             /\ mPathFindingResults' = <<>>
             /\ sinceLastTick' = 0
             /\ tickCount' = tickCount + 1
             /\ history' = [id \in DOMAIN history |->
                    [history[id] EXCEPT
                        !.ticked = IF history[id].createdAt < 0 /\ ~history[id].cancelled
                                   THEN @ + sinceLastTick ELSE @,
                        !.lived = IF history[id].createdAt >= 0 /\ history[id].destroyedAt < 0
                                  THEN @ + sinceLastTick ELSE @,
                        !.createdAt = IF id \in u.created THEN history[id].age ELSE @,
                        !.destroyedAt = IF id \in u.destroyed THEN history[id].age ELSE @]]
             /\ lastTick' = [done |-> TRUE, dt |-> sinceLastTick, updated |-> DOMAIN objectDataMap,
                             events |-> u.events, checks |-> u.checks,
                             created |-> u.created, destroyed |-> u.destroyed,
                             broadcasts |-> u.broadcasts \o
                                 [i \in 1..Cardinality(DOMAIN u.objs) |->
                                     [type |-> "ObjectStateUpdate",
                                      objectId |-> SetToSeq(DOMAIN u.objs)[i]]],
                             staleResults |-> StaleResults,
                             drained |-> mPathFindingResults,
                             pathsBefore |-> mPaths,
                             pathsUpdated |-> DrainResults(mPaths, mPathFindingResults)]
             /\ sinceNPCAttack' =
                    [n \in DOMAIN sinceNPCAttack \cup {e.lhs : e \in {x \in u.events : x.type = "NPCAttack"}} |->
                        IF [type |-> "NPCAttack", lhs |-> n, rhs |-> 0] \in u.events THEN 0
                        ELSE sinceNPCAttack[n]]
             /\ responseMessage' = <<>>
             /\ UNCHANGED running
    /\ UNCHANGED <<peerToPlayerId, nextId, eventCount>>

\* server time passes between two iterations of the main loop: now - lastTick
\* becomes d
Elapse(d) ==
    /\ running
    /\ tickCount < MaxTicks
    /\ sinceLastTick = 0
    /\ sinceLastTick' = d
    /\ history' = [id \in DOMAIN history |->
                      IF history[id].destroyedAt < 0 /\ ~history[id].cancelled
                      THEN [history[id] EXCEPT !.age = @ + d] ELSE history[id]]
    /\ lastTick' = NoTick
    /\ responseMessage' = <<>>
    /\ sinceNPCAttack' = [n \in DOMAIN sinceNPCAttack |->
                              IF sinceNPCAttack[n] + d > NPC_ATTACK_ANIMATION_TIMER_SECS
                              THEN NPC_ATTACK_ANIMATION_TIMER_SECS + 1 ELSE sinceNPCAttack[n] + d]
    /\ UNCHANGED <<running, objectDataMap, peerToPlayerId, pendingObjectsToSpawn, tempObjectTTL,
                   nextId, tickCount, eventCount, quadtrees, mPaths, mNPCToTargetEntries,
                   mPathFindingTasks, mPathFindingResults>>

-----------------------------------------------------------------------------
(* PathController::PathFindingWorker::StartWorker: one iteration of the    *)
(* loop of a worker thread, from the dequeue of a task to the enqueue of   *)
(* its result                                                              *)

WorkerRun(w) ==
    /\ running
    /\ mPathFindingTasks # <<>>
    /\ mPathFindingResults' = Append(mPathFindingResults, WorkerFindPath(Head(mPathFindingTasks)))
    /\ mPathFindingTasks' = Tail(mPathFindingTasks)
    /\ lastTick' = NoTick /\ responseMessage' = <<>> /\ UNCHANGED sinceNPCAttack
    /\ UNCHANGED <<running, objectDataMap, peerToPlayerId, pendingObjectsToSpawn, tempObjectTTL,
                   nextId, sinceLastTick, tickCount, eventCount, quadtrees, mPaths,
                   mNPCToTargetEntries, history>>

-----------------------------------------------------------------------------

\* how long the main loop takes between two ticks
ElapseSteps == {TICK_INTERVAL, HitchDt}

\* the next-state relation of the server: at most `budget` transport events
\* are serviced, the clients send the records of clientStates and name the
\* attackers of attackerIds
NextServer(budget, clientStates, attackerIds) ==
    \/ \E peer \in Peers, spawn \in {Tile(0, 0)} :
           eventCount < budget /\ Connect(peer, spawn) /\ UNCHANGED <<busVars, queueVars, componentVars>>
    \/ \E peer \in Peers : \E data \in clientStates[peerToPlayerId[peer]] :
           eventCount < budget /\ ObjectStateUpdate(peer, data) /\ UNCHANGED <<busVars, queueVars, componentVars>>
    \/ \E peer \in Peers : \E attackerId \in attackerIds[peerToPlayerId[peer]] :
           eventCount < budget /\ CancelAttack(peer, attackerId) /\ UNCHANGED <<busVars, queueVars, componentVars>>
    \/ \E peer \in Peers : \E attackerId \in attackerIds[peerToPlayerId[peer]] :
           \E attackType \in {"MELEE", "PROJECTILE"} :
               /\ eventCount < budget
               /\ BeginAttackRequest(peer, attackerId, attackType)
               /\ UNCHANGED <<busVars, queueVars, componentVars>>
    \/ \E peer \in Peers : eventCount < budget /\ Disconnect(peer) /\ UNCHANGED <<busVars, queueVars, componentVars>>
    \/ \E rnd \in [LoiterCandidates -> 0..7] : Tick(rnd) /\ UNCHANGED <<busVars, queueVars, componentVars>>
    \/ \E d \in ElapseSteps : Elapse(d) /\ UNCHANGED <<busVars, queueVars, componentVars>>
    \/ \E w \in Workers : WorkerRun(w) /\ UNCHANGED <<busVars, queueVars, componentVars>>

Next ==
    NextServer(MaxEvents, [id \in 0..MaxId |-> ClientStates(id)], [id \in 0..MaxId |-> AttackerIds(id)])

vars == <<serverVars, busVars, queueVars, componentVars>>

Init == InitServer /\ InitBus /\ InitQueue /\ InitRepository

Spec == Init /\ [][Next]_vars

\* the event bus on its own
NextBus ==
    \/ \E address \in 1..MaxAddresses :
           CreateListener(address) /\ UNCHANGED <<serverVars, queueVars, componentVars>>
    \/ \E listener \in 0..(MaxListeners - 1), event \in EventTypes :
           RegisterForEvent(listener, event) /\ UNCHANGED <<serverVars, queueVars, componentVars>>
    \/ \E listener \in 0..(MaxListeners - 1) :
           DestroyListener(listener) /\ UNCHANGED <<serverVars, queueVars, componentVars>>
    \/ \E event \in EventTypes : BeginDispatch(event) /\ UNCHANGED <<serverVars, queueVars, componentVars>>
    \/ InvokeCallback /\ UNCHANGED <<serverVars, queueVars, componentVars>>
    \/ EndDispatch /\ UNCHANGED <<serverVars, queueVars, componentVars>>

\* the server under clients that keep their player where it stands and name
\* attackers that exist: more transport events fit into the same state space
PlayerStates(playerId) == {[NewPlayer(playerId, Tile(0, 0)) EXCEPT !.position = Tile(0, NavmapSize - 1)]}

NextAttack ==
    NextServer(MaxAttackEvents, [id \in 0..MaxId |-> PlayerStates(id)], [id \in 0..MaxId |-> {id, 1}])

SpecAttack == Init /\ [][NextAttack]_vars

\* the server under clients that walk their player across the east edge of
\* the starting zone, or far beyond its west edge, out of the aggro range of
\* the seed NPC, or send the record of an NPC: one that is out for a fight
\* and one that belongs to no side and has its action timer at zero
RoamingStates(playerId) ==
    LET base == NewPlayer(playerId, Tile(0, 0))
    IN  { [base EXCEPT !.position = VecAdd(Tile(NavmapSize - 1, 0), <<MAP_TILE_SIZE, 0>>)],
          [base EXCEPT !.position = VecSub(Tile(0, NavmapSize \div 2), <<AGGRO_RANGE, 0>>)],
          [base EXCEPT !.objectType = "NPC", !.objectState = "IDLE",
                       !.position = Tile(0, NavmapSize \div 2),
                       !.speed = PLAYER_BASE_SPEED \div 2, !.actionTimer = 0 - 1],
          [base EXCEPT !.objectType = "NPC", !.objectState = "IDLE",
                       !.objectFaction = "NEUTRAL",
                       !.position = Tile(0, NavmapSize \div 2),
                       !.speed = PLAYER_BASE_SPEED \div 2, !.actionTimer = 0] }

NextRoaming ==
    NextServer(MaxEvents, [id \in 0..MaxId |-> RoamingStates(id)], [id \in 0..MaxId |-> {id}])

SpecRoaming == Init /\ [][NextRoaming]_vars

\* the same server and clients over longer times: between two ticks the main
\* loop may also be held up for as long as the action timer of the seed NPC
\* takes to run out
NextStalling ==
    \/ NextRoaming
    \/ Elapse(StallDt) /\ UNCHANGED <<busVars, queueVars, componentVars>>

SpecStalling == Init /\ [][NextStalling]_vars

\* the path finding worker on its own, for every navmap image
NextWorker ==
    \/ \E solid \in SUBSET NavmapTiles :
           LoadNavmapData(solid)
           /\ UNCHANGED <<serverVars, busVars, queueVars, checkedObject, checkResult, mapDataRepo, destroyedCall>>
    \/ \E startCoord \in TaskTiles, targetCoord \in TaskTiles :
           RunFindPath(WORKER_MAP, startCoord, targetCoord)
           /\ UNCHANGED <<serverVars, busVars, queueVars, checkedObject, checkResult, mapDataRepo, destroyedCall>>

SpecWorker == Init /\ [][NextWorker]_vars

\* the worker on the larger map: the navmap image has some of three SOLID
\* tiles near its north edge, and the worker is handed a task from a tile of
\* the east column to a tile of the west column
NextSearch ==
    \/ \E solid \in SUBSET {<<1, 0>>, <<1, 1>>, <<LargeNavmapSize - 2, 1>>} :
           LoadNavmapData(solid)
           /\ UNCHANGED <<serverVars, busVars, queueVars, checkedObject, checkResult, mapDataRepo, destroyedCall>>
    \/ \E startRow \in 0..(LargeNavmapSize - 1), targetRow \in 0..(LargeNavmapSize - 1) :
           RunFindPath(LARGE_MAP, <<LargeNavmapSize - 1, startRow>>, <<0, targetRow>>)
           /\ UNCHANGED <<serverVars, busVars, queueVars, checkedObject, checkResult, mapDataRepo, destroyedCall>>

SpecSearch == Init /\ [][NextSearch]_vars

\* CheckForMapChange on its own
NextMapCheck ==
    LET meta == MapMetaData(STARTING_ZONE)
        \* the coordinates tried: beyond, on and inside the two edges
        EdgeCoordinates(min, max) == {min - EdgeMargin, min, (min + max) \div 2, max, max + EdgeMargin}
    IN  \E x \in EdgeCoordinates(MapMinX(meta), MapMaxX(meta)),
           y \in EdgeCoordinates(MapMinY(meta), MapMaxY(meta)),
           connections \in [{"NORTH", "EAST", "SOUTH", "WEST"} -> MapNames \cup {"None"}] :
            RunCheckForMapChange(<<x, y>>, connections)
            /\ UNCHANGED <<serverVars, busVars, queueVars, mNavmapPixels, findPathTask, findPathResult,
                           mapDataRepo, destroyedCall>>

SpecMapCheck == Init /\ [][NextMapCheck]_vars

\* the start of the server over every assets directory
NextLoad ==
    \E manifest \in SUBSET AssetMapNames, navmapFiles \in SUBSET AssetMapNames :
        \E undecodable \in SUBSET navmapFiles :
            LoadMapData(manifest, navmapFiles, undecodable)
            /\ UNCHANGED <<serverVars, busVars, queueVars, mNavmapPixels, findPathTask, findPathResult,
                           checkedObject, checkResult, destroyedCall>>

SpecLoad == Init /\ [][NextLoad]_vars

\* OnObjectDestroyedEvent over every event id and every content of mPaths and
\* mNPCToTargetEntries for the ids 1..MaxHandledId
NextDestroyed ==
    LET ids == 1..MaxHandledId
        waypoints == {<<Tile(0, 0)>>, <<Tile(1, 0), Tile(1, 1)>>}
        pathMaps == UNION {[withPath -> waypoints] : withPath \in SUBSET ids}
        entryMaps == UNION {[npcs -> [mTargetObjectId : ids, mPathRecalculationTimer : {0}]] :
                               npcs \in SUBSET ids}
    IN  \E objectId \in ids, paths \in pathMaps, entries \in entryMaps :
            RunOnObjectDestroyedEvent(objectId, paths, entries)
            /\ UNCHANGED <<serverVars, busVars, queueVars, mNavmapPixels, findPathTask, findPathResult,
                           checkedObject, checkResult, mapDataRepo>>

SpecDestroyed == Init /\ [][NextDestroyed]_vars

SpecBus == Init /\ [][NextBus]_vars

\* the two queues of the PathController under their threads
NextQueue ==
    \/ \E objectId \in {1, FIRST_FREE_ID} : CallFindPath(objectId) /\ UNCHANGED <<serverVars, busVars, componentVars>>
    \/ CallUpdate /\ UNCHANGED <<serverVars, busVars, componentVars>>
    \/ \E size \in SizeOutcomes : ReadSize(size) /\ UNCHANGED <<serverVars, busVars, componentVars>>
    \/ \E t \in Threads : Lock(t) /\ UNCHANGED <<serverVars, busVars, componentVars>>
    \/ \E t \in Threads, woken \in Threads : Push(t, woken) /\ UNCHANGED <<serverVars, busVars, componentVars>>
    \/ \E t \in Threads : Test(t) /\ UNCHANGED <<serverVars, busVars, componentVars>>
    \/ \E t \in Threads : Wake(t) /\ UNCHANGED <<serverVars, busVars, componentVars>>
    \/ \E w \in Workers : Compute(w) /\ UNCHANGED <<serverVars, busVars, componentVars>>

SpecQueue == Init /\ [][NextQueue]_vars

\* one step of the thread of a worker; a thread blocked in c.wait is sure to
\* run again only once a notify_one has unblocked it
WorkerStep(w) ==
    /\ \/ Lock(w)
       \/ \E woken \in Threads : Push(w, woken)
       \/ Test(w)
       \/ w \in notified /\ Wake(w)
       \/ Compute(w)
    /\ UNCHANGED <<serverVars, busVars, componentVars>>

\* the simulation thread inside enqueue or dequeue with the lock taken: it
\* runs on to the end of the lock_guard scope
SimLockedStep ==
    /\ \/ \E woken \in Threads : Push(SimThread, woken)
       \/ Test(SimThread)
    /\ UNCHANGED <<serverVars, busVars, componentVars>>

\* the queues under worker threads that are scheduled again and again, and
\* under a simulation thread that may stop calling FindPath and Update but
\* does not stop inside enqueue or dequeue with the lock of a queue taken
SpecQueueFair ==
    /\ Init /\ [][NextQueue]_vars
    /\ \A w \in Workers : WF_vars(WorkerStep(w))
    /\ WF_vars(SimLockedStep)

-----------------------------------------------------------------------------
(* Properties *)

\* C1: at every tick boundary both ids of every NPC-target entry n -> t are
\* ids of objects in the object table
C1_TargetEntriesNameObjects ==
    lastTick.done =>
        \A n \in DOMAIN mNPCToTargetEntries :
            /\ n \in DOMAIN objectDataMap
            /\ mNPCToTargetEntries[n].mTargetObjectId \in DOMAIN objectDataMap

\* C2: a result drained by PathController::Update whose object id is not in
\* the object table leaves no path entry for that id
C2_StaleResultsDropped ==
    lastTick.done => \A id \in lastTick.staleResults : id \notin DOMAIN mPaths

\* C3: the event bus never invokes a callback whose listener has been
\* destroyed, the remaining callbacks of a dispatch in progress included
C3_NoCallbackOfDeadListener == invoked.alive

\* C4: whenever the simulation thread tests q.empty() in dequeue of the
\* result queue, the queue is non-empty, and it never enters c.wait
C4_SimulationNeverWaits ==
    /\ pc[SimThread] = "test" => Len(q["results"]) > 0
    /\ pc[SimThread] # "wait"
    /\ SimThread \notin waited

\* C4 happens: the simulation thread is inside dequeue after a size() read
\* that raced with the push of a worker
C4_Witness ==
    /\ pc[SimThread] = "test"
    /\ sizeRead.raced
    /\ sizeRead.value > 0

\* C5: CheckForMapChange on a position beyond an edge whose neighbour is
\* "None" leaves the current map unchanged and returns false
C5_NoneNeighbourNoChange ==
    lastTick.done =>
        \A c \in lastTick.checks :
            c.nextMapName = "None" => c.mapAfter = c.map /\ ~c.changed

\* the CheckForMapChange calls of the last tick made for a projectile whose
\* integrated position is on a SOLID tile
ProjectilesOnSolid ==
    {c \in lastTick.checks :
        /\ c.objectType = "ATTACK"
        /\ c.attackType = "PROJECTILE"
        /\ TileAtPosition(c.position, c.map) = "SOLID"}

\* C6: a projectile whose integrated position is on a SOLID tile has
\* NetworkObjectCollision(id, 0) published in that tick, and at the end of
\* the tick it is out of the object table and ObjectDestroyed(id) is sent
C6_ProjectileOnSolidDestroyed ==
    lastTick.done =>
        \A c \in ProjectilesOnSolid :
            /\ [type |-> "NetworkObjectCollision", lhs |-> c.objectId, rhs |-> 0] \in lastTick.events
            /\ c.objectId \notin DOMAIN objectDataMap
            /\ c.objectId \in lastTick.destroyed

\* C6 happens: a tick moved a projectile onto a SOLID tile
C6_Witness == lastTick.done /\ ProjectilesOnSolid # {}

\* the accepted melee requests that were not cancelled
Uncancelled == {id \in DOMAIN history : ~history[id].cancelled}

\* C7 as stated: ObjectCreated comes within FAST_MELEE_CHARGE_TIME_SECS of
\* server time after the request, ObjectDestroyed exactly
\* FAST_MELEE_SLASH_TIME_SECS after it, creation first
C7_WithinServerTime ==
    \A id \in Uncancelled :
        /\ history[id].createdAt >= 0 => history[id].createdAt <= FAST_MELEE_CHARGE_TIME_SECS
        /\ history[id].destroyedAt >= 0 =>
               /\ history[id].createdAt >= 0
               /\ history[id].destroyedAt - history[id].createdAt = FAST_MELEE_SLASH_TIME_SECS

\* C7, amended: ObjectCreated is sent by the first tick at which the tick
\* durations added up since the request reach FAST_MELEE_CHARGE_TIME_SECS,
\* ObjectDestroyed by the first later tick at which the tick durations added
\* up since the creation reach FAST_MELEE_SLASH_TIME_SECS, which is at least
\* that much server time after the creation; creation comes first
C7_ByAccumulatedTickTime ==
    \A id \in Uncancelled :
        /\ history[id].createdAt >= 0 <=> history[id].ticked >= FAST_MELEE_CHARGE_TIME_SECS
        /\ history[id].destroyedAt >= 0 <=> history[id].lived >= FAST_MELEE_SLASH_TIME_SECS
        /\ history[id].destroyedAt >= 0 =>
               /\ history[id].createdAt >= 0
               /\ history[id].destroyedAt - history[id].createdAt = history[id].lived
               /\ history[id].destroyedAt - history[id].createdAt >= FAST_MELEE_SLASH_TIME_SECS
        /\ history[id].createdAt >= 0 <=>
               id \in DOMAIN objectDataMap \/ history[id].destroyedAt >= 0

\* C7 happens: a melee attack was created later than
\* FAST_MELEE_CHARGE_TIME_SECS after its request and has been destroyed
C7_Witness ==
    \E id \in Uncancelled :
        /\ history[id].createdAt > FAST_MELEE_CHARGE_TIME_SECS
        /\ history[id].destroyedAt > history[id].createdAt

\* C8, one step: CancelAttack(attackerId) leaves no pending spawn of that
\* parent and no lifetime entry of one, and leaves the other pending spawns,
\* their lifetime entries and the object table as they were; and a request
\* cancelled before is neither pending, nor has a lifetime, nor is created
C8_Step ==
    /\ \A peer \in Peers, attackerId \in 0..MaxId :
           CancelAttack(peer, attackerId) =>
               /\ \A id \in DOMAIN pendingObjectsToSpawn' :
                      /\ pendingObjectsToSpawn'[id].data.parentObjectId # attackerId
                      /\ id \in DOMAIN pendingObjectsToSpawn
                      /\ pendingObjectsToSpawn'[id] = pendingObjectsToSpawn[id]
               /\ \A id \in DOMAIN pendingObjectsToSpawn :
                      pendingObjectsToSpawn[id].data.parentObjectId # attackerId
                          => id \in DOMAIN pendingObjectsToSpawn'
               /\ \A id \in DOMAIN tempObjectTTL :
                      IF id \in DOMAIN pendingObjectsToSpawn
                         /\ pendingObjectsToSpawn[id].data.parentObjectId = attackerId
                      THEN id \notin DOMAIN tempObjectTTL'
                      ELSE id \in DOMAIN tempObjectTTL' /\ tempObjectTTL'[id] = tempObjectTTL[id]
               /\ DOMAIN tempObjectTTL' \subseteq DOMAIN tempObjectTTL
               /\ objectDataMap' = objectDataMap
    /\ \A id \in DOMAIN history :
           history[id].cancelled =>
               /\ id \notin DOMAIN pendingObjectsToSpawn'
               /\ id \notin DOMAIN tempObjectTTL'
               /\ id \notin DOMAIN objectDataMap'
               /\ id \notin lastTick'.created

\* C8: after CancelAttack(attackerId) no pending spawn of that parent and no
\* lifetime entry of one remains, no ObjectCreated is ever sent for them, and
\* everything else is unchanged
C8_CancelDropsPending == [][C8_Step]_vars

\* C8 happens: a request was cancelled while another attacker's spawn was
\* pending, and a tick long enough to spawn both has run since
C8_Witness ==
    /\ lastTick.done
    /\ \E id \in DOMAIN history, other \in lastTick.created :
           /\ history[id].cancelled
           /\ history[id].age >= FAST_MELEE_CHARGE_TIME_SECS
           /\ history[other].parent # history[id].parent

\* C9: at every tick boundary every id with an entry in the path table is a
\* live object of type NPC and its waypoint sequence is non-empty
C9_PathsOfLiveNPCs ==
    lastTick.done =>
        \A id \in DOMAIN mPaths :
            /\ id \in DOMAIN objectDataMap
            /\ objectDataMap[id].objectType = "NPC"
            /\ Len(mPaths[id]) > 0

\* C10: after every tick the current map of every object in the object
\* table is a known map whose quadtree holds the object
C10_ObjectsInQuadtrees ==
    lastTick.done =>
        \A id \in DOMAIN objectDataMap :
            /\ objectDataMap[id].currentMap \in MapNames
            /\ id \in quadtrees[objectDataMap[id].currentMap]

\* C11: every object of type ATTACK in the object table has an attack type
\* other than NONE and a lifetime-timer entry for its id
C11_AttacksHaveLifetime ==
    \A id \in DOMAIN objectDataMap :
        objectDataMap[id].objectType = "ATTACK" =>
            /\ objectDataMap[id].attackType # "NONE"
            /\ id \in DOMAIN tempObjectTTL

\* C12, one step: an ObjectStateUpdate whose object id is not the sending
\* peer's player id leaves the object table unchanged, the server running
\* and the peer connected
C12_Step ==
    \A peer \in Peers : \A data \in ClientStates(peerToPlayerId[peer]) :
        ObjectStateUpdate(peer, data) /\ data.objectId # peerToPlayerId[peer] =>
            /\ objectDataMap' = objectDataMap
            /\ running'
            /\ peerToPlayerId'[peer] = peerToPlayerId[peer]

\* C12: an ObjectStateUpdate with a foreign object id is dropped: no change
\* of the object table, the server keeps running, the peer stays connected
C12_ForeignUpdateDropped == [][C12_Step]_vars

\* C13, one step of the server
C13_Step ==
    /\ tickCount' = tickCount + 1 =>
           \A id \in DOMAIN objectDataMap :
               objectDataMap[id].objectType = "PLAYER" =>
                   /\ id \in DOMAIN objectDataMap'
                   /\ objectDataMap'[id] = objectDataMap[id]
                   /\ objectDataMap[id] \in BroadcastSnapshots(objectDataMap')
    /\ \A peer \in Peers : \A data \in RoamingStates(peerToPlayerId[peer]) :
           ObjectStateUpdate(peer, data) /\ running' =>
               objectDataMap'[peerToPlayerId[peer]] = data

\* C13: a tick leaves every PLAYER object as it was, and ObjectStateUpdate
\* stores the record of the client as it is: the snapshot of the tick carries
\* the values the player supplied last (position, velocity, state, facing
\* and current map included)
C13_TickKeepsPlayers == [][C13_Step]_vars

\* the PLAYER objects that stand beyond an edge of their current map
PlayersBeyondEdge ==
    {id \in DOMAIN objectDataMap :
        /\ objectDataMap[id].objectType = "PLAYER"
        /\ objectDataMap[id].currentMap \in MapNames
        /\ NextMapName(objectDataMap[id], MapMetaData(objectDataMap[id].currentMap)) # ""}

\* C13 happens: a tick has run over a PLAYER whose record, sent by the
\* client, has a position beyond the east edge of its current map
C13_Witness ==
    /\ lastTick.done
    /\ \E id \in PlayersBeyondEdge : id \in lastTick.updated

\* C14: after a tick no PLAYER stands beyond the east edge of its current
\* map while that map has a neighbour to the EAST: the tick has set its
\* current map to the neighbour
C14_PlayerMapFollowsPosition ==
    lastTick.done =>
        \A id \in PlayersBeyondEdge :
            NextMapName(objectDataMap[id], MapMetaData(objectDataMap[id].currentMap)) = "None"

\* the callbacks the dispatch in progress has invoked so far, in their order
InvokedSoFar == SubSeq(mEventCallbacks[dispatching.event], 1, dispatching.callbackIter - 1)

\* the place of a listener in the registration order of an event
RegisteredAt(event, listener) ==
    CHOOSE i \in 1..Len(registrationOrder[event]) : registrationOrder[event][i] = listener

\* C15: a dispatch invokes the callbacks of the subscribers of the event in
\* the order in which they registered for it, whatever the order in which
\* the listeners were created
C15_InvokedInRegistrationOrder ==
    dispatching # NoDispatch =>
        \A i, j \in 1..Len(InvokedSoFar) :
            i < j => RegisteredAt(dispatching.event, InvokedSoFar[i])
                         < RegisteredAt(dispatching.event, InvokedSoFar[j])

\* PathController::mPaths as the objects of the next tick find it: after
\* PathController::Update
PathsAtUpdate == DrainResults(mPaths, mPathFindingResults)

\* the record of object t as object n finds it during its update in a tick
\* step: the objects are updated in the order of their ids
RecordAtUpdate(n, t) ==
    IF t < n /\ t \in DOMAIN objectDataMap' THEN objectDataMap'[t] ELSE objectDataMap[t]

NPCAttackOf(n) == [type |-> "NPCAttack", lhs |-> n, rhs |-> 0]

\* the NPCs with a target entry whose target is in the object table
NPCsWithTarget ==
    {n \in DOMAIN objectDataMap \cap DOMAIN mNPCToTargetEntries :
        /\ objectDataMap[n].objectType = "NPC"
        /\ objectDataMap[n].currentMap \in MapNames
        /\ mNPCToTargetEntries[n].mTargetObjectId \in DOMAIN objectDataMap}

\* the effects of an attack on NPC n in a tick step; the action timer is set
\* to NPC_ATTACK_ANIMATION_TIMER_SECS and runs for the rest of the update
AttackEffects(n) ==
    /\ NPCAttackOf(n) \in lastTick'.events
    /\ objectDataMap'[n].objectState = "MELEE_ATTACK"
    /\ n \notin DOMAIN mPaths'
    /\ objectDataMap'[n].actionTimer = NPC_ATTACK_ANIMATION_TIMER_SECS - sinceLastTick

\* C16 as stated, one tick: an NPC with a target entry whose collider
\* intersects its target's (before and after the tick) and whose action
\* timer is <= 0 attacks, with or without a path
C16_StepAsStated ==
    tickCount' = tickCount + 1 =>
        \A n \in NPCsWithTarget :
            (/\ objectDataMap[n].actionTimer <= 0
             /\ CollidersIntersect(objectDataMap[mNPCToTargetEntries[n].mTargetObjectId], objectDataMap[n])
             /\ CollidersIntersect(RecordAtUpdate(n, mNPCToTargetEntries[n].mTargetObjectId), objectDataMap'[n]))
                => AttackEffects(n)

\* C16 as stated: whenever the collider of an NPC with a target entry
\* intersects its target's and action_timer <= 0, the NPC publishes
\* NPCAttack, becomes MELEE_ATTACK, loses its path and has its action timer
\* set to 0.5 s, whether or not it has a path
C16_AttackWheneverTouching == [][C16_StepAsStated]_vars

\* C16, amended, one tick: an IDLE NPC attacks exactly when it follows a
\* path, has a target entry, its action timer is below zero and, after its
\* movement of this tick, its collider intersects its target's
C16_StepAmended ==
    tickCount' = tickCount + 1 =>
        \A n \in DOMAIN objectDataMap :
            (/\ objectDataMap[n].objectType = "NPC"
             /\ objectDataMap[n].objectState = "IDLE") =>
                IF /\ n \in NPCsWithTarget
                   /\ n \in DOMAIN PathsAtUpdate
                   /\ objectDataMap[n].actionTimer < 0
                   /\ CollidersIntersect(RecordAtUpdate(n, mNPCToTargetEntries[n].mTargetObjectId),
                                         objectDataMap'[n])
                THEN AttackEffects(n)
                ELSE NPCAttackOf(n) \notin lastTick'.events

\* C16, amended: an IDLE NPC that follows a path and has a target entry
\* publishes NPCAttack, becomes MELEE_ATTACK, loses its path and has its
\* action timer set to 0.5 s in the tick in which its action timer is below
\* zero and its collider, after its movement, intersects its target's; an
\* IDLE NPC without a path or with an action timer of zero or more does not
C16_AttackWhileFollowingPath == [][C16_StepAmended]_vars

\* C16 happens: the last tick made an NPC with a target entry attack
C16_Witness ==
    /\ lastTick.done
    /\ \E n \in DOMAIN objectDataMap \cap DOMAIN mNPCToTargetEntries :
           /\ NPCAttackOf(n) \in lastTick.events
           /\ objectDataMap[n].objectState = "MELEE_ATTACK"
           /\ objectDataMap[n].actionTimer = NPC_ATTACK_ANIMATION_TIMER_SECS - lastTick.dt
           /\ n \notin DOMAIN mPaths

\* the number of queued path-finding tasks of object n
TaskCount(tasks, n) == Cardinality({i \in 1..Len(tasks) : tasks[i].mObjectId = n})

\* the pairs <<n, p>> of C17: an IDLE EVIL NPC n without a path at its
\* update and a GOOD PLAYER p on the same map, within AGGRO_RANGE and in line
\* of sight, with no other object of the map that n could pick
AggroPairs ==
    {pair \in (DOMAIN objectDataMap) \X (DOMAIN objectDataMap) :
        LET n == pair[1]
            p == pair[2]
        IN  /\ objectDataMap[n].objectType = "NPC"
            /\ objectDataMap[n].objectState = "IDLE"
            /\ objectDataMap[n].objectFaction = "EVIL"
            /\ objectDataMap[n].currentMap \in MapNames
            /\ n \notin DOMAIN PathsAtUpdate
            /\ objectDataMap[p].objectType = "PLAYER"
            /\ objectDataMap[p].objectFaction = "GOOD"
            /\ objectDataMap[p].currentMap = objectDataMap[n].currentMap
            /\ LengthSq(VecSub(objectDataMap[p].position, objectDataMap[n].position))
                   <= AGGRO_RANGE * AGGRO_RANGE
            /\ IsTargetInLOS(objectDataMap[n], objectDataMap[p], objectDataMap[n].currentMap, sinceLastTick)
            /\ \A o \in DOMAIN objectDataMap \ {n, p} :
                   \/ objectDataMap[o].currentMap # objectDataMap[n].currentMap
                   \/ objectDataMap[o].objectType \notin {"PLAYER", "NPC"}
                   \/ objectDataMap[o].objectFaction = "EVIL"}

\* C17, one tick
C17_Step ==
    tickCount' = tickCount + 1 =>
        \A pair \in AggroPairs :
            LET n == pair[1]
                p == pair[2]
            IN  /\ [type |-> "NPCAggro", lhs |-> n, rhs |-> p] \in lastTick'.events
                /\ \A e \in lastTick'.events : e.type = "NPCAggro" /\ e.lhs = n => e.rhs = p
                /\ objectDataMap'[n].facingDirection =
                       VecToFacingDirection(VecSub(objectDataMap[p].position, objectDataMap[n].position))
                /\ TaskCount(mPathFindingTasks', n) = TaskCount(mPathFindingTasks, n) + 1
                /\ mPathFindingTasks'[Len(mPathFindingTasks')].mObjectId = n =>
                       /\ mPathFindingTasks'[Len(mPathFindingTasks')].mStartPosition = objectDataMap[n].position
                       /\ mPathFindingTasks'[Len(mPathFindingTasks')].mTargetPosition = objectDataMap[p].position
                /\ n \in DOMAIN mNPCToTargetEntries'
                /\ mNPCToTargetEntries'[n] =
                       [mTargetObjectId |-> p, mPathRecalculationTimer |-> NPC_PATH_RECALCULATION_SECS]

\* C17: for an IDLE EVIL NPC without a path and a GOOD PLAYER on its map,
\* within aggro range and in line of sight, one tick publishes exactly one
\* NPCAggro(npc, player), turns the NPC to face the player, enqueues exactly
\* one path-finding task for the NPC and records the target entry of the
\* player with the recalculation timer at 0.05 s
C17_AggroAcquisition == [][C17_Step]_vars

\* C17 happens: the last tick made an EVIL NPC pick a PLAYER as its target
C17_Witness ==
    /\ lastTick.done
    /\ \E e \in lastTick.events :
           /\ e.type = "NPCAggro"
           /\ e.lhs \in DOMAIN objectDataMap /\ e.rhs \in DOMAIN objectDataMap
           /\ objectDataMap[e.lhs].objectFaction = "EVIL"
           /\ objectDataMap[e.rhs].objectType = "PLAYER"
           /\ e.lhs \in DOMAIN mNPCToTargetEntries
           /\ mNPCToTargetEntries[e.lhs].mTargetObjectId = e.rhs
           /\ TaskCount(mPathFindingTasks, e.lhs) > 0

\* the IDLE NPCs that have no path at their update of the next tick and find
\* no valid target on their map
IdleNPCsWithoutTarget ==
    {n \in DOMAIN objectDataMap :
        /\ objectDataMap[n].objectType = "NPC"
        /\ objectDataMap[n].objectState = "IDLE"
        /\ objectDataMap[n].currentMap \in MapNames
        /\ n \notin DOMAIN mPaths
        /\ n \notin DOMAIN PathsAtUpdate
        /\ \A id \in DOMAIN objectDataMap :
               objectDataMap[id].currentMap = objectDataMap[n].currentMap =>
                   ~IsValidTarget([o \in DOMAIN objectDataMap |-> RecordAtUpdate(n, o)],
                                  objectDataMap[n], id, sinceLastTick)}

\* the world centres of the WALKABLE tiles among the 8 tiles around object n
WalkableNeighbourCentres(n) ==
    LET here == GetNavmapCoord(objectDataMap[n].position, objectDataMap[n].currentMap)
    IN  {GetMapPositionFromNavmapCoord(<<here[1] + dc, here[2] + dr>>, objectDataMap[n].currentMap) :
            <<dc, dr>> \in {d \in (0 - 1..1) \X (0 - 1..1) :
                               /\ d # <<0, 0>>
                               /\ GetNavmapTileAt(<<here[1] + d[1], here[2] + d[2]>>,
                                                  objectDataMap[n].currentMap) = "WALKABLE"}}

\* the first outcome of C18: a new path of one waypoint, the centre of a
\* WALKABLE tile next to the NPC
HasLoiterPath(n) ==
    /\ n \in DOMAIN mPaths'
    /\ Len(mPaths'[n]) = 1
    /\ mPaths'[n][1] \in WalkableNeighbourCentres(n)

\* C18 as stated, one tick of 25 ms: the NPC starts with action_timer = 0
\* and ends with a loiter path or unmoved with action_timer at about 5 s
C18_StepAsStated ==
    tickCount' = tickCount + 1 /\ sinceLastTick = TICK_INTERVAL =>
        \A n \in IdleNPCsWithoutTarget :
            objectDataMap[n].actionTimer = 0 =>
                \/ HasLoiterPath(n)
                \/ /\ objectDataMap'[n].position = objectDataMap[n].position
                    /\ objectDataMap'[n].actionTimer >= NPC_LOITERING_TIMER_SECS - sinceLastTick
                    /\ objectDataMap'[n].actionTimer <= NPC_LOITERING_TIMER_SECS

C18_StepAmended ==
    tickCount' = tickCount + 1 =>
        \A n \in IdleNPCsWithoutTarget :
            /\ objectDataMap'[n].position = objectDataMap[n].position
            /\ IF objectDataMap[n].actionTimer < 0
               THEN /\ objectDataMap'[n].actionTimer = NPC_LOITERING_TIMER_SECS - sinceLastTick
                    /\ HasLoiterPath(n) \/ n \notin DOMAIN mPaths'
               ELSE /\ objectDataMap'[n].actionTimer = objectDataMap[n].actionTimer - sinceLastTick
                    /\ n \notin DOMAIN mPaths'

NonEmptyResultsOf(id) ==
    {i \in 1..Len(lastTick.drained) :
        lastTick.drained[i].mObjectId = id /\ Len(lastTick.drained[i].mPath) > 0}

\* the results drained by the last tick that carry an empty path for an
\* object that had a path
EmptyResultsOverPath ==
    {i \in 1..Len(lastTick.drained) :
        /\ Len(lastTick.drained[i].mPath) = 0
        /\ lastTick.drained[i].mObjectId \in DOMAIN lastTick.pathsBefore}

\* C19: after PathController::Update an object id with a non-empty result
\* has the path of its last such result as its whole path; every other id,
\* ids with empty results included, has the path it had before, or none if
\* it had none; and the result queue is drained
C19_UpdateAppliesResults ==
    lastTick.done =>
        /\ mPathFindingResults = <<>>
        /\ \A id \in 0..MaxId :
               IF NonEmptyResultsOf(id) # {}
               THEN /\ id \in DOMAIN lastTick.pathsUpdated
                    /\ lastTick.pathsUpdated[id] =
                           lastTick.drained[CHOOSE i \in NonEmptyResultsOf(id) :
                                                \A j \in NonEmptyResultsOf(id) : j <= i].mPath
               ELSE /\ id \in DOMAIN lastTick.pathsUpdated <=> id \in DOMAIN lastTick.pathsBefore
                    /\ id \in DOMAIN lastTick.pathsBefore =>
                           lastTick.pathsUpdated[id] = lastTick.pathsBefore[id]

\* C19 happens: the last tick drained an empty result of an object that had
\* a path
C19_Witness ==
    /\ lastTick.done
    /\ EmptyResultsOverPath # {}

-----------------------------------------------------------------------------
\* C20: for every navmap and every start and target whose tiles differ and
\* whose target tile can be reached from the start tile over 4-connected
\* WALKABLE tiles inside the navmap, the path the worker returns starts at a
\* tile 4-adjacent to the start tile, steps between 4-adjacent tiles, lies on
\* WALKABLE tiles only, ends at the target tile and never holds the start tile

TaskStartTile == GetNavmapCoord(findPathTask.mStartPosition, WORKER_MAP)
TaskTargetTile == GetNavmapCoord(findPathTask.mTargetPosition, WORKER_MAP)

FourAdjacent(a, b) == Abs(a[1] - b[1]) + Abs(a[2] - b[2]) = 1

\* the tiles one more step away: WALKABLE tiles of the navmap next to a tile
\* of the set
WalkableStep(tiles) ==
    tiles \cup {t \in NavmapTiles : /\ GetNavmapTileAt(t, WORKER_MAP) = "WALKABLE"
                                     /\ \E s \in tiles : FourAdjacent(s, t)}

RECURSIVE ReachableTiles(_)
ReachableTiles(tiles) ==
    UNION { IF next = tiles THEN tiles ELSE ReachableTiles(next) : next \in {WalkableStep(tiles)} }

PathTiles == [i \in 1..Len(findPathResult.mPath) |-> GetNavmapCoord(findPathResult.mPath[i], WORKER_MAP)]

C20_WorkerPathIsWalkableRoute ==
    (/\ findPathTask # NoTask
     /\ TaskStartTile # TaskTargetTile
     /\ TaskTargetTile \in ReachableTiles({TaskStartTile}))
    => /\ findPathResult.mObjectId = findPathTask.mObjectId
       /\ Len(PathTiles) >= 1
       /\ FourAdjacent(TaskStartTile, PathTiles[1])
       /\ \A i \in 1..(Len(PathTiles) - 1) : FourAdjacent(PathTiles[i], PathTiles[i + 1])
       /\ \A i \in 1..Len(PathTiles) : GetNavmapTileAt(PathTiles[i], WORKER_MAP) = "WALKABLE"
       /\ PathTiles[Len(PathTiles)] = TaskTargetTile
       /\ \A i \in 1..Len(PathTiles) : PathTiles[i] # TaskStartTile

\* a route that has to go around SOLID tiles: longer than the distance
\* between its two tiles
C20_Witness ==
    /\ findPathTask # NoTask
    /\ TaskTargetTile \in ReachableTiles({TaskStartTile})
    /\ Len(findPathResult.mPath) > Heuristic(TaskStartTile, TaskTargetTile) + 2

-----------------------------------------------------------------------------
\* C21: the path the worker returns is empty exactly when the start and the
\* target lie in one tile or the target tile cannot be reached from the
\* start tile over 4-connected WALKABLE tiles inside the navmap (a SOLID
\* target tile and one outside the navmap cannot be reached)

TargetUnreachable == TaskTargetTile \notin ReachableTiles({TaskStartTile})

C21_EmptyPathIffNoRoute ==
    findPathTask # NoTask
    => /\ findPathResult.mObjectId = findPathTask.mObjectId
       /\ (findPathResult.mPath = <<>>) <=> (TaskStartTile = TaskTargetTile \/ TargetUnreachable)
       /\ (GetNavmapTileAt(TaskTargetTile, WORKER_MAP) = "SOLID" /\ TaskStartTile # TaskTargetTile)
              => findPathResult.mPath = <<>>

\* a WALKABLE target tile inside the navmap, cut off from the start tile
\* that has a WALKABLE neighbour of its own: the heap runs empty
C21_Witness ==
    /\ findPathTask # NoTask
    /\ TaskStartTile # TaskTargetTile
    /\ TaskTargetTile \in NavmapTiles
    /\ GetNavmapTileAt(TaskTargetTile, WORKER_MAP) = "WALKABLE"
    /\ ReachableTiles({TaskStartTile}) # {TaskStartTile}
    /\ TargetUnreachable
    /\ findPathResult.mPath = <<>>

-----------------------------------------------------------------------------
\* C22: the lifetime registered with a melee attack stays at
\* FAST_MELEE_SLASH_TIME_SECS while the attack is pending: no tick runs it
\* down before the object is in the object table, the tick that commits the
\* object included; the ticks after that one run it down

C22_Step ==
    /\ \A id \in DOMAIN pendingObjectsToSpawn :
           /\ id \notin DOMAIN objectDataMap
           /\ id \in DOMAIN tempObjectTTL
           /\ tempObjectTTL[id] = FAST_MELEE_SLASH_TIME_SECS
    /\ (tickCount' = tickCount + 1) =>
           /\ \A id \in DOMAIN pendingObjectsToSpawn :
                  /\ id \in DOMAIN tempObjectTTL'
                  /\ tempObjectTTL'[id] = FAST_MELEE_SLASH_TIME_SECS
                  /\ id \in DOMAIN objectDataMap' <=> id \notin DOMAIN pendingObjectsToSpawn'
           /\ \A id \in DOMAIN tempObjectTTL \cap DOMAIN objectDataMap :
                  \/ id \notin DOMAIN tempObjectTTL' /\ id \notin DOMAIN objectDataMap'
                  \/ /\ id \in DOMAIN tempObjectTTL'
                     /\ tempObjectTTL'[id] <= tempObjectTTL[id] - sinceLastTick
                     /\ tempObjectTTL'[id] > 0

C22_LifetimeWaitsForCommit == [][C22_Step]_vars

\* an attack committed by the last tick after an earlier tick had found it
\* pending, its whole lifetime still ahead of it
C22_Witness ==
    /\ lastTick.done
    /\ \E id \in lastTick.created :
           /\ history[id].ticked > lastTick.dt
           /\ id \in DOMAIN objectDataMap
           /\ tempObjectTTL[id] = FAST_MELEE_SLASH_TIME_SECS

-----------------------------------------------------------------------------
\* C23: every object a tick commits to the object table names as its parent
\* itself or an object that is in the object table when it is committed,
\* also when the attacker disconnected while the attack was pending

\* the objects a step adds to the object table
Committed == DOMAIN objectDataMap' \ DOMAIN objectDataMap

C23_Step ==
    (tickCount' = tickCount + 1) =>
        \A id \in Committed :
            \/ objectDataMap'[id].parentObjectId = id
            \/ objectDataMap'[id].parentObjectId \in DOMAIN objectDataMap \cup Committed

C23_ParentLiveAtSpawn == [][C23_Step]_vars

-----------------------------------------------------------------------------
\* C24: the edges are tested in the order EAST, WEST, NORTH, SOUTH and only
\* the first one the position exceeds selects the candidate neighbour: with
\* two edges exceeded, the object moves to the neighbour of the first if
\* that is a map, and stays on its map if that is "None", whatever the
\* neighbour beyond the other edge is

EdgeOrder == <<"EAST", "WEST", "NORTH", "SOUTH">>

Exceeds(data, meta, direction) ==
    CASE direction = "EAST" -> data.position[1] > MapMaxX(meta)
      [] direction = "WEST" -> data.position[1] < MapMinX(meta)
      [] direction = "NORTH" -> data.position[2] > MapMaxY(meta)
      [] direction = "SOUTH" -> data.position[2] < MapMinY(meta)

ExceededEdges == {i \in 1..Len(EdgeOrder) : Exceeds(checkedObject.data, checkedObject.meta, EdgeOrder[i])}

FirstExceededEdge == EdgeOrder[CHOOSE i \in ExceededEdges : \A j \in ExceededEdges : i <= j]

C24_FirstExceededEdgeDecides ==
    checkedObject # [objectId |-> 0] =>
        IF ExceededEdges = {}
        THEN checkResult = [data |-> checkedObject.data, changed |-> FALSE]
        ELSE LET candidate == checkedObject.meta.mMapConnections[FirstExceededEdge]
             IN  /\ checkResult.changed
                 /\ checkResult.data =
                        [checkedObject.data EXCEPT !.currentMap = IF candidate = "None" THEN @ ELSE candidate]

\* two edges exceeded, "None" beyond the first, another map beyond the other
C24_Witness ==
    /\ checkedObject # [objectId |-> 0]
    /\ Cardinality(ExceededEdges) = 2
    /\ checkedObject.meta.mMapConnections[FirstExceededEdge] = "None"
    /\ \E i \in ExceededEdges :
           checkedObject.meta.mMapConnections[EdgeOrder[i]] \notin {"None", checkedObject.data.currentMap}
    /\ checkResult.data.currentMap = checkedObject.data.currentMap

-----------------------------------------------------------------------------
\* C25: loading the map data ends in CONFIG_ERROR, and not in a repository
\* the server goes on with, whenever the manifest names another number of
\* maps than navmaps were decoded or an image failed to decode

C25_LoadFailsOnBadAssets ==
    (\/ Cardinality(mapDataRepo.mMapMetaData) # Cardinality(mapDataRepo.mNavmaps)
     \/ mapDataRepo.errorsLogged # {})
    => mapDataRepo.outcome = "CONFIG_ERROR"

-----------------------------------------------------------------------------
\* C26: with the worker threads scheduled fairly, every task enqueued by
\* FindPath is dequeued by exactly one worker and leads to exactly one
\* result on the result queue, which carries the object id of the task: no
\* task is lost and none is processed twice (the simulation thread, as in the
\* code, does not stop inside enqueue with the lock of the task queue taken)

TaskEnqueued(r) == \E i \in 1..Len(q["tasks"]) : q["tasks"][i].request = r

ServedAtMostOnce ==
    \A r \in 1..MaxRequests :
        /\ Len(served[r].dequeuedBy) <= 1
        /\ Len(served[r].results) <= Len(served[r].dequeuedBy)
        /\ \A i \in 1..Len(served[r].results) : served[r].results[i] = served[r].mObjectId
        /\ TaskEnqueued(r) => served[r].dequeuedBy = <<>>

C26_EveryTaskServedOnce ==
    /\ []ServedAtMostOnce
    /\ \A r \in 1..MaxRequests :
           TaskEnqueued(r) ~> (Len(served[r].dequeuedBy) = 1 /\ Len(served[r].results) = 1)

\* every request made has its result, and both workers had their share
C26_Witness ==
    /\ requested = MaxRequests
    /\ \A r \in 1..MaxRequests : Len(served[r].results) = 1
    /\ \A w \in Workers : \E r \in 1..MaxRequests : served[r].dequeuedBy = <<w>>

-----------------------------------------------------------------------------
\* C27: for one object the results are applied in the order of their
\* requests: a result applied after the result of a later request for the
\* same object never is the result of an earlier request, so that the path
\* of the object is that of its most recent request once every result has
\* been drained, however the two workers interleave

C27_ResultsAppliedInRequestOrder ==
    \A i \in 1..Len(applied), j \in 1..Len(applied) :
        (i < j /\ applied[i].mObjectId = applied[j].mObjectId)
            => applied[i].request < applied[j].request

-----------------------------------------------------------------------------
\* C28: an NPC that has acquired a target, with the path task of that
\* acquisition still in the task queue, publishes no further NPCAggro for
\* that target and enqueues no further path task in a later tick

\* the NPCs with a target entry whose path task is still outstanding
NPCsAwaitingPath ==
    {n \in DOMAIN mNPCToTargetEntries \cap DOMAIN objectDataMap :
        /\ objectDataMap[n].objectType = "NPC"
        /\ TaskCount(mPathFindingTasks, n) >= 1
        /\ \A i \in 1..Len(mPathFindingResults) : mPathFindingResults[i].mObjectId # n}

C28_Step ==
    tickCount' = tickCount + 1 =>
        \A n \in NPCsAwaitingPath :
            /\ [type |-> "NPCAggro", lhs |-> n, rhs |-> mNPCToTargetEntries[n].mTargetObjectId]
                   \notin lastTick'.events
            /\ TaskCount(mPathFindingTasks', n) <= TaskCount(mPathFindingTasks, n)

C28_NoSecondAggroWhileWaiting == [][C28_Step]_vars

\* C29: a listener that has registered a callback for an event and has not
\* been destroyed has that callback invoked by every later dispatch of the
\* event, also when listeners destroyed earlier stood at the address it now
\* occupies: the callbacks a dispatch iterates over hold it
C29_LiveListenerStaysSubscribed ==
    dispatching # NoDispatch =>
        \A l \in listeners :
            l \in SeqElems(registrationOrder[dispatching.event])
                => l \in SeqElems(mEventCallbacks[dispatching.event])

\* C30: after the updater has handled ObjectDestroyed(id) there is no path
\* for id and no NPC target entry whose key or whose target is id, and every
\* other path and every other entry is as it was before
C30_DestroyedObjectForgotten ==
    destroyedCall.mObjectId # 0 =>
        LET id == destroyedCall.mObjectId
            before == destroyedCall.before
            after == destroyedCall.after
            otherEntries == {n \in DOMAIN before.entries :
                                n # id /\ before.entries[n].mTargetObjectId # id}
        IN  /\ id \notin DOMAIN after.paths
            /\ \A n \in DOMAIN after.entries : n # id /\ after.entries[n].mTargetObjectId # id
            /\ DOMAIN after.paths = DOMAIN before.paths \ {id}
            /\ \A n \in DOMAIN after.paths : after.paths[n] = before.paths[n]
            /\ DOMAIN after.entries = otherEntries
            /\ \A n \in otherEntries : after.entries[n] = before.entries[n]

\* the handler was called for an object that had a path and an entry of its
\* own and was the target of another NPC, beside an NPC and a path it had
\* nothing to do with
C30_Witness ==
    /\ destroyedCall.mObjectId # 0
    /\ destroyedCall.mObjectId \in DOMAIN destroyedCall.before.paths
    /\ destroyedCall.mObjectId \in DOMAIN destroyedCall.before.entries
    /\ \E n \in DOMAIN destroyedCall.before.entries :
           /\ n # destroyedCall.mObjectId
           /\ destroyedCall.before.entries[n].mTargetObjectId = destroyedCall.mObjectId
    /\ \E n \in DOMAIN destroyedCall.after.entries : n \in DOMAIN destroyedCall.after.paths

\* the record of an object as the update of another object finds it in a
\* tick: the objects are updated in the order of their ids, so that an
\* object of a smaller id has had its update of that tick already
AsSeenBy(n, t) == IF t < n /\ t \in DOMAIN objectDataMap' THEN objectDataMap'[t] ELSE objectDataMap[t]

\* the pairs (n, t) a tick makes a target entry of, or changes the entry to
NewTargetPairs ==
    {<<n, mNPCToTargetEntries'[n].mTargetObjectId>> :
        n \in {m \in DOMAIN mNPCToTargetEntries' :
                  \/ m \notin DOMAIN mNPCToTargetEntries
                  \/ mNPCToTargetEntries[m].mTargetObjectId # mNPCToTargetEntries'[m].mTargetObjectId}}

\* the pairs (n, t) of the NPCAggro events of a tick
AggroEventPairs == {<<e.lhs, e.rhs>> : e \in {x \in lastTick'.events : x.type = "NPCAggro"}}

\* C31, one tick
C31_Step ==
    tickCount' = tickCount + 1 =>
        /\ NewTargetPairs \subseteq AggroEventPairs
        /\ \A pair \in AggroEventPairs :
               LET n == pair[1]
                   t == pair[2]
               IN  /\ n \in DOMAIN objectDataMap /\ t \in DOMAIN objectDataMap
                   /\ t # n
                   /\ objectDataMap[n].objectFaction # "NEUTRAL"
                   /\ objectDataMap[t].objectFaction # objectDataMap[n].objectFaction
                   /\ objectDataMap[t].objectType \in {"PLAYER", "NPC"}
                   /\ objectDataMap[t].currentMap = objectDataMap[n].currentMap
                   /\ LengthSq(VecSub(AsSeenBy(n, t).position, objectDataMap[n].position))
                          <= AGGRO_RANGE * AGGRO_RANGE
                   /\ IsTargetInLOS(objectDataMap[n], AsSeenBy(n, t), objectDataMap[n].currentMap,
                                    lastTick'.dt)

\* C31: a tick publishes NPCAggro(n, t), and records the target entry
\* n -> t, only for t other than n, n not NEUTRAL, t of another faction than
\* n, t a PLAYER or an NPC, t on the map of n when the tick began, t within
\* AGGRO_RANGE of n and in its line of sight
C31_AggroOnlyOnValidTarget == [][C31_Step]_vars

\* the last tick published an NPCAggro and recorded its target entry
C31_Witness ==
    /\ lastTick.done
    /\ \E e \in lastTick.events :
           /\ e.type = "NPCAggro"
           /\ e.lhs \in DOMAIN mNPCToTargetEntries
           /\ mNPCToTargetEntries[e.lhs].mTargetObjectId = e.rhs

\* the NPCs a tick finds in MELEE_ATTACK
NPCsInMelee ==
    {n \in DOMAIN objectDataMap :
        objectDataMap[n].objectType = "NPC" /\ objectDataMap[n].objectState = "MELEE_ATTACK"}

\* C32, one run of the tick code: a tick that came to its end, or one that
\* ended the server
C32_Step ==
    (tickCount' = tickCount + 1 \/ (running /\ ~running' /\ eventCount' = eventCount)) =>
        \A n \in NPCsInMelee :
            /\ n \in DOMAIN objectDataMap'
            /\ objectDataMap'[n].position = objectDataMap[n].position
            /\ IF objectDataMap[n].actionTimer >= 0
               THEN objectDataMap'[n].objectState = "MELEE_ATTACK"
               ELSE IF n \notin DOMAIN mNPCToTargetEntries
               THEN objectDataMap'[n].objectState = "IDLE"
               ELSE IF /\ mNPCToTargetEntries[n].mTargetObjectId \in DOMAIN objectDataMap
                       /\ ~CollidersIntersect(AsSeenBy(n, mNPCToTargetEntries[n].mTargetObjectId),
                                              objectDataMap[n])
               THEN /\ objectDataMap'[n].objectState = "IDLE"
                    /\ TaskCount(mPathFindingTasks', n) = TaskCount(mPathFindingTasks, n) + 1
               ELSE /\ objectDataMap'[n].objectState = "MELEE_ATTACK"
                    /\ [type |-> "NPCAttack", lhs |-> n, rhs |-> 0] \in lastTick'.events
                    /\ objectDataMap'[n].actionTimer = NPC_ATTACK_ANIMATION_TIMER_SECS - lastTick'.dt

\* C32: an NPC in MELEE_ATTACK keeps its state while its action timer is not
\* below zero; once it is, the NPC returns to IDLE when it has no target
\* entry, returns to IDLE and enqueues exactly one path request when its
\* collider no longer intersects that of its target, and otherwise stays in
\* MELEE_ATTACK, publishes NPCAttack and has its action timer reset to 0.5 s
\* (from which the time of the tick is taken at the end of the update); in
\* no case does it move in that tick
C32_MeleeAttackBranch == [][C32_Step]_vars

\* C33, one tick
C33_Step ==
    tickCount' = tickCount + 1 =>
        \A e \in lastTick'.events :
            e.type = "NPCAttack" /\ e.lhs \in DOMAIN sinceNPCAttack
                => sinceNPCAttack[e.lhs] > NPC_ATTACK_ANIMATION_TIMER_SECS

\* C33: between two consecutive NPCAttack events of one NPC more than 0.5 s
\* of server time passes (the dt of the ticks after the first, up to and
\* including that of the second)
C33_AttacksHalfASecondApart == [][C33_Step]_vars

\* the places of the messages of a type for an object among the broadcasts
\* of the last tick
BroadcastsOf(type, id) ==
    {i \in 1..Len(lastTick.broadcasts) :
        lastTick.broadcasts[i].type = type /\ lastTick.broadcasts[i].objectId = id}

\* the objects the last tick broadcast a snapshot of
SnapshotIds ==
    {lastTick.broadcasts[i].objectId :
        i \in {j \in 1..Len(lastTick.broadcasts) : lastTick.broadcasts[j].type = "ObjectStateUpdate"}}

C35_QuadtreesHoldLiveObjects ==
    lastTick.done => \A map \in MapNames : quadtrees[map] \subseteq DOMAIN objectDataMap


\* C36: ids are never reused. Every id handed out, to a connecting player or
\* to the attack of an accepted melee request, is nextId: at least
\* FIRST_FREE_ID and above the id of every object, pending spawn and player
\* the server has known, all of which are below nextId; nextId never goes
\* down, and a step that hands out no id (a rejected request among them)
\* leaves it where it is.
KnownIds == (DOMAIN objectDataMap \cup DOMAIN pendingObjectsToSpawn \cup DOMAIN history
             \cup {peerToPlayerId[peer] : peer \in Peers}) \ {0}
AssignedIds == (DOMAIN objectDataMap' \cup DOMAIN pendingObjectsToSpawn')
               \ (DOMAIN objectDataMap \cup DOMAIN pendingObjectsToSpawn)
C36_Step ==
    /\ nextId >= FIRST_FREE_ID
    /\ \A id \in KnownIds : id < nextId
    /\ \A id \in AssignedIds : id >= FIRST_FREE_ID /\ id = nextId /\ nextId' = id + 1
    /\ AssignedIds = {} => nextId' = nextId
C36_IdsNeverReused == [][C36_Step]_vars

\* a player connected, attacked, left and connected again: ids 2, 3 and 4
C36_Witness ==
    /\ 3 \in DOMAIN history
    /\ \E peer \in Peers : peerToPlayerId[peer] = 4
    /\ 2 \notin DOMAIN objectDataMap

\* C37: a BeginAttackRequest that names an attacker the object table does not
\* hold is dropped: the pending spawns, the lifetime timers and nextId stay
\* as they are and the server keeps running
C37_Step ==
    \A peer \in Peers, attackType \in AttackTypes :
        \A attackerId \in (0..MaxId) \ DOMAIN objectDataMap :
            BeginAttackRequest(peer, attackerId, attackType)
                => /\ running'
                   /\ UNCHANGED <<pendingObjectsToSpawn, tempObjectTTL, nextId>>
C37_UnknownAttackerDropped == [][C37_Step]_vars

\* C38: a BeginAttackRequest of a known attacker with an attack type other
\* than MELEE is answered with a BeginAttackResponse that allows nothing and
\* has charge duration 0, and leaves the object table, the pending spawns,
\* the lifetime timers and nextId as they are
C38_Step ==
    \A peer \in Peers, attackType \in AttackTypes \ {"MELEE"} :
        \A attackerId \in DOMAIN objectDataMap :
            BeginAttackRequest(peer, attackerId, attackType)
                => /\ responseMessage' = <<[allowed |-> FALSE, attackerId |-> attackerId,
                                          attackType |-> attackType, chargeDurationSecs |-> 0]>>
                   /\ running'
                   /\ UNCHANGED <<objectDataMap, pendingObjectsToSpawn, tempObjectTTL, nextId>>
TaskMapTiles ==
    (0..(NavmapSizeOf(findPathTask.mMap) - 1)) \X (0..(NavmapSizeOf(findPathTask.mMap) - 1))
RECURSIVE RouteLength(_, _, _)
RouteLength(frontier, seen, steps) ==
    IF GetNavmapCoord(findPathTask.mTargetPosition, findPathTask.mMap) \in frontier THEN steps
    ELSE IF frontier = {} THEN 0 - 1
    ELSE LET next == {t \in TaskMapTiles \ seen :
                         /\ GetNavmapTileAt(t, findPathTask.mMap) = "WALKABLE"
                         /\ \E f \in frontier : Heuristic(f, t) = 1}
         IN  RouteLength(next, seen \cup next, steps + 1)
ShortestRouteLength ==
    LET start == {GetNavmapCoord(findPathTask.mStartPosition, findPathTask.mMap)}
    IN  RouteLength(start, start, 0)
C39_PathIsShortest ==
    (findPathTask # NoTask /\ findPathResult.mPath # <<>>)
        => Len(findPathResult.mPath) = ShortestRouteLength

\* C40: the search of a task ends. Every push but the first is one of the at
\* most four pushes of a node that was closed, and a node is closed once, so
\* the open heap receives at most 1 + 4 * (closed nodes) pushes; when the end
\* node is reached, the walk from it along the parents goes to nodes of ever
\* smaller gCost, visits no node twice and ends at the start node, the one
\* node without a parent
RECURSIVE ParentChain(_, _, _)
ParentChain(a, node, fuel) ==
    IF node = NoParent \/ fuel = 0 THEN <<>>
    ELSE <<node>> \o ParentChain(a, a.nodes[node].parent, fuel - 1)
SearchEnds(a, startCoord, endCoord) ==
    LET chain == ParentChain(a, endCoord, Cardinality(DOMAIN a.nodes) + 1)
    IN  /\ a.closedSet \subseteq DOMAIN a.nodes
        /\ a.pushCount <= 1 + 4 * Cardinality(a.closedSet)
        /\ a.resultPathVec = <<>> => a.openSet = <<>>
        /\ a.resultPathVec # <<>> =>
              /\ Len(chain) <= Cardinality(DOMAIN a.nodes)
              /\ \A i \in 1..(Len(chain) - 1) : a.nodes[chain[i + 1]].gCost < a.nodes[chain[i]].gCost
              /\ chain[Len(chain)] = startCoord
              /\ a.nodes[startCoord].parent = NoParent
              /\ Len(a.resultPathVec) = Len(chain) - 1
C40_SearchTerminates ==
    findPathTask # NoTask =>
        SearchEnds(Search(findPathTask),
                   GetNavmapCoord(findPathTask.mStartPosition, findPathTask.mMap),
                   GetNavmapCoord(findPathTask.mTargetPosition, findPathTask.mMap))

\* a search that pushed a node a second time and went around SOLID tiles
C40_Witness ==
    /\ findPathTask # NoTask
    /\ Len(findPathResult.mPath) > Heuristic(GetNavmapCoord(findPathTask.mStartPosition, findPathTask.mMap),
                                             GetNavmapCoord(findPathTask.mTargetPosition, findPathTask.mMap))
    /\ Search(findPathTask).pushCount > Cardinality(DOMAIN Search(findPathTask).nodes)

=========================================================================
